---------------------------- MODULE Spec2Model ----------------------------
(***************************************************************************)
(* A model of the kafka-sniffer request pipeline:                          *)
(*   - the expiring-gauge metric store (package metrics, storage.go),      *)
(*   - the SASL correlator (package kafka, auth tracker),                  *)
(*   - the framed request reader and the per-flow orchestrator             *)
(*     (kafka.DecodeRequest, stream.KafkaStream.run).                      *)
(* Go strings and byte slices are sequences of bytes (0..255).             *)
(***************************************************************************)
EXTENDS Integers, Sequences, FiniteSets, TLC

(***************************************************************************)
(* Bounds of the model.                                                    *)
(***************************************************************************)
\* expireTime of the metric store, in clock ticks (it is a run-time option)
TTL == 2
\* how many set/inc calls the callers of the metric store make in all
MaxCalls == 3
\* the wall clock of the metric store is kept modulo this
ClockPeriod == 2
\* how many correlator operations are called in all
MaxAuthOps == 4
\* minutes that pass in one step of the correlator's clock
TickMinutes == 4
\* ages are not counted beyond this many minutes
MaxAge == 35
\* cleanupOldSessions drops a session older than this many minutes
SessionTTL == 5
\* the ip TTL of the specification, in minutes (spec.md 4.5; the code has no such constant)
IpTTL == 30
\* bytes every host can allocate for one slice (1 GiB)
AlwaysAllocatable == 1073741824
\* DescribeConfigs refuses more config names than this
ConfigNamesCeiling == 10000
\* ListOffsets and Metadata refuse more topics or partitions than this
CountCeiling == 10000

(***************************************************************************)
(* Strings used as inputs, spelled as bytes.                               *)
(***************************************************************************)
IP1 == <<49,48,46,48,46,48,46,49>>                     \* "10.0.0.1"
IP2 == <<49,48,46,48,46,48,46,50>>                     \* "10.0.0.2"
TopicOrders == <<111,114,100,101,114,115>>             \* "orders"
TopicLogs == <<108,111,103,115>>                       \* "logs"
EmptyStr == << >>

EmptyMap == [x \in {} |-> 0]

MapPut(m, k, v) == [x \in DOMAIN m \cup {k} |-> IF x = k THEN v ELSE m[x]]

MapDel(m, k) == [x \in DOMAIN m \ {k} |-> m[x]]

RECURSIVE Join(_, _)
\* strings.Join(elems, sep)
Join(elems, sep) ==
    IF Len(elems) = 0 THEN EmptyStr
    ELSE IF Len(elems) = 1 THEN elems[1]
    ELSE elems[1] \o sep \o Join(Tail(elems), sep)

\* genLabelKey: the labels joined with "_"
genLabelKey(labels) == Join(labels, <<95>>)

(***************************************************************************)
(* State.                                                                  *)
(***************************************************************************)
VARIABLES
    \* ---- metric store: one `metric` per expiring gauge family
    gauge,          \* family -> (label tuple -> value): promMetric, the exposed gauge
    relations,      \* family -> (label key -> relation id): metric.relations
    rels,           \* sequence of relation objects, each with its goroutine's position
    expPc,          \* family -> position of the family's runExpiration goroutine
    expLabels,      \* family -> labels runExpiration received and is processing
    callers,        \* caller -> position inside metric.set / metric.inc
    callsLeft,      \* calls the callers may still start
    lastObserved,   \* history: <<family, labels>> -> ticks since the last set/inc returned
    clock,          \* the wall clock of the metric store, modulo ClockPeriod
    \* ---- SASL correlator (package kafka)
    authSessions,   \* endpoint -> AuthSession (Timestamp kept as the session's age)
    ipToUsername,   \* base ip -> username
    ipIdle,         \* history: base ip -> minutes since the ip was last recorded or looked up
    established,    \* history: base ip -> the identity UpdateAuthSession recorded last
    lastLookup,     \* what the most recent GetAuthSession returned
    lastOp,         \* the correlator operation that returned last
    lastRead,       \* history: endpoint -> minutes since GetAuthSession returned its entry's identity
    authOpsLeft,    \* correlator operations still to be called
    \* ---- frame reader (package kafka)
    frame,          \* the frame prefix offered to DecodeRequest and what it did with it
    \* ---- metrics.Storage maps and the plain (never expiring) vectors
    clientProducerTopics,   \* client ip -> set of topics
    clientConsumerTopics,   \* client ip -> set of topics
    userClientMapping,      \* client ip -> userInfo
    clientUserMap,          \* client ip -> userMapping (package level)
    ProducerUserTopicInfo,  \* <<client_ip, username, topic>> -> value
    ConsumerUserTopicInfo,  \* <<client_ip, username, topic>> -> value
    AuthUserActivity,       \* <<client_ip, username, mechanism>> -> value
    AuthenticationInfo,     \* <<client_ip, mechanism, username>> -> value
    RequestsCount,          \* <<client_ip, request_type, version>> -> value
    BlocksRequested,        \* <<client_ip>> -> value
    defaultStorage,         \* whether SetDefaultStorage has been called
    \* ---- flows (package stream)
    streams,        \* flow -> the KafkaStream fields and the position of its run goroutine
    wire,           \* flow -> bytes the reader holds and run has not consumed
    closed,         \* flow -> the assembler has signalled the end of the stream
    crashed,        \* the process has ended on a panic or a fatal error
    framesLeft,     \* deliveries the flows may still receive
    lastIter,       \* history: flow -> what the last loop iteration of run did
    events,         \* history: the Produce, Fetch and SaslAuthenticate cases run executed
    \* ---- locking of the stores (packages metrics and kafka)
    tasks,          \* goroutine -> the operation it is in and the steps it has still to take
    locks,          \* lock -> the goroutine holding it exclusively and those holding it shared
    hasEntry,       \* map -> whether the map holds an entry for the key the operations look up
    \* ---- SaslAuthenticate tokens (packages kafka and stream)
    sasl,           \* the token a flow was sent in a SaslAuthenticate request and the body decoded from it
    \* ---- pure functions
    probe           \* the argument a function is called with and what it returned

metricVars == <<gauge, relations, rels, expPc, expLabels, callers, callsLeft, lastObserved, clock>>

authVars == <<authSessions, ipToUsername, ipIdle, established, lastLookup, lastOp, lastRead,
              authOpsLeft>>

frameVars == <<frame>>

lockVars == <<tasks, locks, hasEntry>>

saslVars == <<sasl>>

probeVars == <<probe>>

storageVars ==
    <<clientProducerTopics, clientConsumerTopics, userClientMapping, clientUserMap,
      ProducerUserTopicInfo, ConsumerUserTopicInfo, AuthUserActivity, AuthenticationInfo,
      RequestsCount, BlocksRequested, defaultStorage>>

streamVars == <<streams, wire, closed, crashed, framesLeft, lastIter, events>>

notProbe == <<metricVars, authVars, frameVars, lockVars, saslVars, storageVars, streamVars>>

notMetric == <<authVars, frameVars, lockVars, saslVars, probeVars, storageVars, streamVars>>

notAuth == <<metricVars, frameVars, lockVars, saslVars, probeVars, storageVars, streamVars>>

notFrame == <<metricVars, authVars, lockVars, saslVars, probeVars, storageVars, streamVars>>

notLock == <<metricVars, authVars, frameVars, saslVars, probeVars, storageVars, streamVars>>

vars == <<metricVars, authVars, frameVars, lockVars, saslVars, probeVars, storageVars, streamVars>>

Families == {"producer", "consumer", "active"}

Callers == {"c1", "c2"}

\* what the callers of the store observe: set for the relation gauges, inc for
\* active_connections_total
Observations ==
    { [fam |-> "producer", labels |-> <<IP1, TopicOrders>>, op |-> "set"],
      [fam |-> "consumer", labels |-> <<IP1, TopicLogs>>, op |-> "set"],
      [fam |-> "active", labels |-> <<IP1>>, op |-> "inc"] }

(***************************************************************************)
(* The exposed GaugeVec: WithLabelValues(l).Set(1), .Inc(), and            *)
(* DeleteLabelValues(l).                                                   *)
(***************************************************************************)
GaugeSet(g, labels) == MapPut(g, labels, 1)

GaugeInc(g, labels) ==
    MapPut(g, labels, (IF labels \in DOMAIN g THEN g[labels] ELSE 0) + 1)

GaugeDelete(g, labels) == MapDel(g, labels)

(***************************************************************************)
(* time.Timer as go1.20 has it (Dockerfile.build): a one-slot channel C    *)
(* that the runtime fills when the timer fires; Reset re-arms the timer    *)
(* and leaves the channel as it is.                                        *)
(***************************************************************************)
NilTimer == [set |-> FALSE, armed |-> FALSE, left |-> 0, c |-> FALSE]

NewTimer(d) == [set |-> TRUE, armed |-> TRUE, left |-> d, c |-> FALSE]

TimerReset(t, d) == [t EXCEPT !.armed = TRUE, !.left = d]

\* one tick of the clock: an armed timer that reaches zero fires
TimerTick(t) ==
    IF t.set /\ t.armed
    THEN IF t.left <= 1
         THEN [t EXCEPT !.left = 0, !.armed = FALSE, !.c = TRUE]
         ELSE [t EXCEPT !.left = t.left - 1]
    ELSE t

\* relation.refresh: resets the timer or creates a new one
refresh(r) ==
    IF ~r.timer.set
    THEN [r EXCEPT !.timer = NewTimer(TTL)]
    ELSE [r EXCEPT !.timer = TimerReset(r.timer, TTL)]

\* newRelation: the relation object; its goroutine (run) has not started yet
newRelation(fam, labels) ==
    [fam |-> fam, labels |-> labels, pc |-> "start", timer |-> NilTimer]

\* an update that starts a relation for every call, whether the key has one or not
updateAlwaysNew(relMap, rs, fam, labels) ==
    [relations |-> MapPut(relMap, genLabelKey(labels), Len(rs) + 1),
     rels |-> Append(rs, newRelation(fam, labels))]

\* metric.update under m.mux: refresh the relation of the key, or create one.
\* The result is the new relations map of the family and the new relation list.
update(relMap, rs, fam, labels) ==
    LET key == genLabelKey(labels) IN
    IF key \in DOMAIN relMap
    THEN [relations |-> relMap,
          rels |-> [rs EXCEPT ![relMap[key]] = refresh(rs[relMap[key]])]]
    ELSE [relations |-> MapPut(relMap, key, Len(rs) + 1),
          rels |-> Append(rs, newRelation(fam, labels))]

(***************************************************************************)
(* metric.set / metric.inc, as the two steps other goroutines can          *)
(* interleave with: the gauge update, then update() under the mutex.       *)
(***************************************************************************)
SetGauge(c, o) ==
    /\ callers[c].pc = "idle"
    /\ callsLeft > 0
    /\ o.op = "set"
    /\ gauge' = [gauge EXCEPT ![o.fam] = GaugeSet(gauge[o.fam], o.labels)]
    /\ callers' = [callers EXCEPT ![c] = [pc |-> "update", fam |-> o.fam, labels |-> o.labels]]
    /\ callsLeft' = callsLeft - 1
    /\ UNCHANGED <<relations, rels, expPc, expLabels, lastObserved, clock, notMetric>>

IncGauge(c, o) ==
    /\ callers[c].pc = "idle"
    /\ callsLeft > 0
    /\ o.op = "inc"
    /\ gauge' = [gauge EXCEPT ![o.fam] = GaugeInc(gauge[o.fam], o.labels)]
    /\ callers' = [callers EXCEPT ![c] = [pc |-> "update", fam |-> o.fam, labels |-> o.labels]]
    /\ callsLeft' = callsLeft - 1
    /\ UNCHANGED <<relations, rels, expPc, expLabels, lastObserved, clock, notMetric>>

Update(c) ==
    /\ callers[c].pc = "update"
    /\ LET fam == callers[c].fam
           labels == callers[c].labels
           u == update(relations[fam], rels, fam, labels)
       IN /\ relations' = [relations EXCEPT ![fam] = u.relations]
          /\ rels' = u.rels
          /\ lastObserved' = MapPut(lastObserved, <<fam, labels>>, 0)
    /\ callers' = [callers EXCEPT ![c] = [pc |-> "idle", fam |-> "", labels |-> << >>]]
    /\ UNCHANGED <<gauge, expPc, expLabels, callsLeft, clock, notMetric>>

(***************************************************************************)
(* relation.run: refresh; <-timer.C; expCh <- labels                       *)
(***************************************************************************)
RelationStart(i) ==
    /\ rels[i].pc = "start"
    /\ rels' = [rels EXCEPT ![i] = [refresh(rels[i]) EXCEPT !.pc = "wait"]]
    /\ UNCHANGED <<gauge, relations, expPc, expLabels, callers, callsLeft, lastObserved, clock, notMetric>>

RelationTimerFired(i) ==
    /\ rels[i].pc = "wait"
    /\ rels[i].timer.c
    /\ rels' = [rels EXCEPT ![i].pc = "send", ![i].timer.c = FALSE]
    /\ UNCHANGED <<gauge, relations, expPc, expLabels, callers, callsLeft, lastObserved, clock, notMetric>>

(***************************************************************************)
(* metric.runExpiration: for labels := range expCh { DeleteLabelValues;    *)
(* lock; delete(relations, key); unlock }.  expCh is unbuffered: the send  *)
(* of a relation and the receive happen together.                          *)
(***************************************************************************)
\* a receive that leaves the sending relation blocked on its send
ExpReceiveKeepsSender(fam, i) ==
    /\ expPc[fam] = "recv"
    /\ rels[i].pc = "send"
    /\ rels[i].fam = fam
    /\ expPc' = [expPc EXCEPT ![fam] = "delete"]
    /\ expLabels' = [expLabels EXCEPT ![fam] = rels[i].labels]
    /\ UNCHANGED <<gauge, relations, rels, callers, callsLeft, lastObserved, clock, notMetric>>

ExpReceive(fam, i) ==
    /\ expPc[fam] = "recv"
    /\ rels[i].pc = "send"
    /\ rels[i].fam = fam
    /\ rels' = [rels EXCEPT ![i].pc = "done"]
    /\ expPc' = [expPc EXCEPT ![fam] = "delete"]
    /\ expLabels' = [expLabels EXCEPT ![fam] = rels[i].labels]
    /\ UNCHANGED <<gauge, relations, callers, callsLeft, lastObserved, clock, notMetric>>

ExpDeleteLabelValues(fam) ==
    /\ expPc[fam] = "delete"
    /\ gauge' = [gauge EXCEPT ![fam] = GaugeDelete(gauge[fam], expLabels[fam])]
    /\ expPc' = [expPc EXCEPT ![fam] = "unrelate"]
    /\ UNCHANGED <<relations, rels, expLabels, callers, callsLeft, lastObserved, clock, notMetric>>

ExpDeleteRelation(fam) ==
    /\ expPc[fam] = "unrelate"
    /\ relations' = [relations EXCEPT ![fam] = MapDel(relations[fam], genLabelKey(expLabels[fam]))]
    /\ expPc' = [expPc EXCEPT ![fam] = "recv"]
    /\ expLabels' = [expLabels EXCEPT ![fam] = << >>]
    /\ UNCHANGED <<gauge, rels, callers, callsLeft, lastObserved, clock, notMetric>>

\* the clock of the metric store advances by one tick
MetricTick ==
    /\ rels' = [i \in DOMAIN rels |-> [rels[i] EXCEPT !.timer = TimerTick(rels[i].timer)]]
    /\ lastObserved' = [k \in DOMAIN lastObserved |->
                          IF lastObserved[k] < TTL THEN lastObserved[k] + 1 ELSE TTL]
    /\ clock' = (clock + 1) % ClockPeriod
    /\ UNCHANGED <<gauge, relations, expPc, expLabels, callers, callsLeft, notMetric>>

(***************************************************************************)
(* SASL correlator: authSessions and ipToUsername behind authSessionsLock. *)
(* Every operation holds the lock from entry to return, so each is one     *)
(* step.  Times are minutes; a session keeps its age instead of its        *)
(* Timestamp.                                                              *)
(***************************************************************************)
Colon == 58

Dot == 46

LBracket == 91

RBracket == 93

\* strings.Count(s, b) for a one-byte b
CountByte(s, b) == Cardinality({i \in DOMAIN s : s[i] = b})

\* strings.Contains(s, b) for a one-byte b
ContainsByte(s, b) == \E i \in DOMAIN s : s[i] = b

\* strings.HasPrefix(s, b) for a one-byte b
HasPrefixByte(s, b) == Len(s) > 0 /\ s[1] = b

\* strings.Split(s, b)[0]: what precedes the first b, all of s if there is none
FirstPart(s, b) ==
    IF ContainsByte(s, b)
    THEN SubSeq(s, 1, (CHOOSE i \in DOMAIN s : s[i] = b /\ \A j \in 1..(i-1) : s[j] # b) - 1)
    ELSE s

\* strings.TrimPrefix(s, b) for a one-byte b
TrimPrefixByte(s, b) == IF HasPrefixByte(s, b) THEN Tail(s) ELSE s

\* extractBaseIP: the address without its port
extractBaseIP(addr) ==
    IF CountByte(addr, Colon) > 1 /\ (HasPrefixByte(addr, LBracket) \/ ~ContainsByte(addr, Dot))
    THEN IF HasPrefixByte(addr, LBracket) /\ ContainsByte(addr, RBracket)
         THEN TrimPrefixByte(FirstPart(addr, RBracket), LBracket)
         ELSE addr
    ELSE FirstPart(addr, Colon)

\* cleanupOldSessions: drops the sessions older than 5 minutes; ipToUsername is kept
cleanupOldSessions(sessions) ==
    [a \in {x \in DOMAIN sessions : ~(sessions[x].age > SessionTTL)} |-> sessions[a]]

NoLookup == [valid |-> FALSE, addr |-> EmptyStr, found |-> FALSE, Username |-> EmptyStr,
             Mechanism |-> EmptyStr, idle |-> 0]

Touch(idle, addr) == MapPut(idle, extractBaseIP(addr), 0)

\* the session map StoreAuthHandshake leaves
SessionsAfterStore(sessions, clientAddr, mechanism) ==
    cleanupOldSessions(
        MapPut(sessions, clientAddr,
               [ClientAddr |-> clientAddr, Mechanism |-> mechanism,
                Username |-> EmptyStr, age |-> 0]))

\* the session map UpdateAuthSession leaves
SessionsAfterUpdate(sessions, clientAddr, username) ==
    IF clientAddr \notin DOMAIN sessions
    THEN sessions
    ELSE [sessions EXCEPT ![clientAddr].Username = username]

StoreAuthHandshake(clientAddr, mechanism) ==
    /\ authOpsLeft > 0
    /\ authOpsLeft' = authOpsLeft - 1
    /\ authSessions' = SessionsAfterStore(authSessions, clientAddr, mechanism)
    /\ ipIdle' = Touch(ipIdle, clientAddr)
    /\ lastLookup' = NoLookup
    /\ lastOp' = "StoreAuthHandshake"
    /\ lastRead' = MapDel(lastRead, clientAddr)
    /\ UNCHANGED <<ipToUsername, established>>

UpdateAuthSession(clientAddr, username) ==
    /\ authOpsLeft > 0
    /\ authOpsLeft' = authOpsLeft - 1
    /\ authSessions' = SessionsAfterUpdate(authSessions, clientAddr, username)
    /\ ipToUsername' = MapPut(ipToUsername, extractBaseIP(clientAddr), username)
    /\ ipIdle' = Touch(ipIdle, clientAddr)
    /\ established' = MapPut(established, extractBaseIP(clientAddr), [user |-> username, age |-> 0])
    /\ lastLookup' = NoLookup
    /\ lastOp' = "UpdateAuthSession"
    /\ UNCHANGED lastRead

\* the session GetAuthSession returns: the exact match, else a synthetic one
\* made from the username of the base ip
SessionLookup(sessions, ipMap, clientAddr) ==
    IF clientAddr \in DOMAIN sessions
    THEN [found |-> TRUE, Username |-> sessions[clientAddr].Username,
          Mechanism |-> sessions[clientAddr].Mechanism]
    ELSE IF extractBaseIP(clientAddr) \in DOMAIN ipMap
         THEN [found |-> TRUE, Username |-> ipMap[extractBaseIP(clientAddr)],
               Mechanism |-> EmptyStr]
         ELSE [found |-> FALSE, Username |-> EmptyStr, Mechanism |-> EmptyStr]

GetAuthSessionResult(clientAddr) == SessionLookup(authSessions, ipToUsername, clientAddr)

IdleOf(addr) ==
    IF extractBaseIP(addr) \in DOMAIN ipIdle THEN ipIdle[extractBaseIP(addr)] ELSE 0

GetAuthSession(clientAddr) ==
    /\ authOpsLeft > 0
    /\ authOpsLeft' = authOpsLeft - 1
    /\ LET r == GetAuthSessionResult(clientAddr)
       IN lastLookup' = [valid |-> TRUE, addr |-> clientAddr, found |-> r.found,
                         Username |-> r.Username, Mechanism |-> r.Mechanism,
                         idle |-> IdleOf(clientAddr)]
    /\ ipIdle' = IF extractBaseIP(clientAddr) \in DOMAIN ipIdle
                 THEN Touch(ipIdle, clientAddr) ELSE ipIdle
    /\ lastOp' = "GetAuthSession"
    /\ lastRead' = IF clientAddr \in DOMAIN authSessions
                       /\ authSessions[clientAddr].Username # EmptyStr
                    THEN MapPut(lastRead, clientAddr, 0) ELSE lastRead
    /\ UNCHANGED <<authSessions, ipToUsername, established>>

\* the username GetUsernameByIP returns, "" if the base ip has none
UsernameLookup(ipMap, clientAddr) ==
    IF extractBaseIP(clientAddr) \in DOMAIN ipMap
    THEN ipMap[extractBaseIP(clientAddr)]
    ELSE EmptyStr

GetUsernameByIPResult(clientAddr) == UsernameLookup(ipToUsername, clientAddr)

GetUsernameByIP(clientAddr) ==
    /\ authOpsLeft > 0
    /\ authOpsLeft' = authOpsLeft - 1
    /\ lastLookup' = [valid |-> TRUE, addr |-> clientAddr,
                      found |-> GetUsernameByIPResult(clientAddr) # EmptyStr,
                      Username |-> GetUsernameByIPResult(clientAddr),
                      Mechanism |-> EmptyStr, idle |-> IdleOf(clientAddr)]
    /\ ipIdle' = IF extractBaseIP(clientAddr) \in DOMAIN ipIdle
                 THEN Touch(ipIdle, clientAddr) ELSE ipIdle
    /\ lastOp' = "GetUsernameByIP"
    /\ UNCHANGED <<authSessions, ipToUsername, established, lastRead>>

Older(age) == IF age + TickMinutes > MaxAge THEN MaxAge ELSE age + TickMinutes

\* TickMinutes minutes pass
AuthTick ==
    /\ \E a \in DOMAIN ipIdle : ipIdle[a] < MaxAge
    /\ authSessions' = [a \in DOMAIN authSessions |->
                          [authSessions[a] EXCEPT !.age = Older(authSessions[a].age)]]
    /\ ipIdle' = [a \in DOMAIN ipIdle |-> Older(ipIdle[a])]
    /\ established' = [a \in DOMAIN established |->
                          [established[a] EXCEPT !.age = Older(established[a].age)]]
    /\ lastLookup' = NoLookup
    /\ lastOp' = "tick"
    /\ lastRead' = [a \in DOMAIN lastRead |->
                       IF lastRead[a] + TickMinutes > SessionTTL THEN SessionTTL
                       ELSE lastRead[a] + TickMinutes]
    /\ UNCHANGED <<ipToUsername, authOpsLeft>>

AuthInit ==
    /\ authSessions = EmptyMap
    /\ ipToUsername = EmptyMap
    /\ ipIdle = EmptyMap
    /\ established = EmptyMap
    /\ lastLookup = NoLookup
    /\ lastOp = "none"
    /\ lastRead = EmptyMap
    /\ authOpsLeft = MaxAuthOps

Endpoint1a == <<49,48,46,48,46,48,46,49,58,53,48,48,48>>     \* "10.0.0.1:5000"
Endpoint1b == <<49,48,46,48,46,48,46,49,58,53,48,48,49>>     \* "10.0.0.1:5001"
Endpoint2 == <<49,48,46,48,46,48,46,50,58,53,48,48,48>>      \* "10.0.0.2:5000"
Alice == <<97,108,105,99,101>>                               \* "alice"
Bob == <<98,111,98>>                                         \* "bob"
MechPlain == <<80,76,65,73,78>>                              \* "PLAIN"
MechScram == <<83,67,82,65,77,45,83,72,65,45,50,53,54>>      \* "SCRAM-SHA-256"

Endpoints == {Endpoint1a, Endpoint1b, Endpoint2}

Usernames == {Alice, Bob}

Mechanisms == {MechPlain, MechScram}

AuthNext ==
    \/ \E a \in Endpoints, m \in Mechanisms :
          StoreAuthHandshake(a, m) /\ UNCHANGED notAuth
    \/ \E a \in Endpoints, u \in Usernames :
          UpdateAuthSession(a, u) /\ UNCHANGED notAuth
    \/ \E a \in Endpoints : GetAuthSession(a) /\ UNCHANGED notAuth
    \/ \E a \in Endpoints : GetUsernameByIP(a) /\ UNCHANGED notAuth
    \/ AuthTick /\ UNCHANGED notAuth

(***************************************************************************)
(* Byte decoder (PacketDecoder).  Its implementation is not among the      *)
(* sources; it is modelled after spec.md 4.1: cursor-based big-endian      *)
(* reads that fail with Truncated when fewer bytes remain than required,   *)
(* array lengths that fail with MalformedLength when negative.  A decoder  *)
(* value carries the bytes, the cursor, the error of the first read that   *)
(* failed (later reads are then not made) and the value read last.         *)
(***************************************************************************)
NoError == [kind |-> "nil", pde |-> FALSE, text |-> EmptyStr]

ErrTruncated == [kind |-> "Truncated", pde |-> FALSE, text |-> <<84,114,117,110,99,97,116,101,100>>]

ErrMalformedLength == [kind |-> "MalformedLength", pde |-> FALSE, text |-> <<77,97,108,102,111,114,109,101,100,76,101,110,103,116,104>>]

\* PacketDecodingError{text}
PacketDecodingError(text) == [kind |-> "PacketDecodingError", pde |-> TRUE, text |-> text]

\* the process ends with "fatal error: runtime: out of memory"
ErrOutOfMemory == [kind |-> "fatal", pde |-> FALSE, text |-> <<111,117,116,32,111,102,32,109,101,109,111,114,121>>]

NewDecoder(raw, hostGrants) ==
    [raw |-> raw, off |-> 0, err |-> NoError, v |-> 0, host |-> hostGrants]

remaining(pd) == Len(pd.raw) - pd.off

Failed(pd) == pd.err # NoError

Fail(pd, e) == [pd EXCEPT !.err = e]

RECURSIVE BigEndian(_)
\* the unsigned big-endian value of a byte sequence
BigEndian(bs) ==
    IF Len(bs) = 0 THEN 0
    ELSE BigEndian(SubSeq(bs, 1, Len(bs) - 1)) * 256 + bs[Len(bs)]

\* the two's complement big-endian value of at most four bytes
SignedBigEndian(bs) ==
    IF Len(bs) = 0 THEN 0
    ELSE (IF bs[1] >= 128 THEN bs[1] - 256 ELSE bs[1]) * 256^(Len(bs) - 1)
         + BigEndian(Tail(bs))

MinInt32 == -2147483647 - 1

MaxInt32 == 2147483647

\* x - d in int32 arithmetic, for 0 <= d <= MaxInt32
Sub32(x, d) ==
    IF x >= MinInt32 + d THEN x - d
    ELSE ((x + MaxInt32) - d + 2) + MaxInt32

\* the next n bytes as an unsigned integer of 8n bits
getUint(pd, n) ==
    IF Failed(pd) THEN pd
    ELSE IF remaining(pd) < n THEN Fail(pd, ErrTruncated)
    ELSE [pd EXCEPT !.v = BigEndian(SubSeq(pd.raw, pd.off + 1, pd.off + n)), !.off = pd.off + n]

\* the next n <= 4 bytes as a signed integer of 8n bits
getSigned(pd, n) ==
    IF Failed(pd) THEN pd
    ELSE IF remaining(pd) < n THEN Fail(pd, ErrTruncated)
    ELSE [pd EXCEPT !.v = SignedBigEndian(SubSeq(pd.raw, pd.off + 1, pd.off + n)),
                    !.off = pd.off + n]

getInt8(pd) == getSigned(pd, 1)

getInt16(pd) == getSigned(pd, 2)

getInt32(pd) == getSigned(pd, 4)

\* a 64-bit integer, kept as its two 32-bit words
getInt64(pd) ==
    IF Failed(pd) THEN pd
    ELSE IF remaining(pd) < 8 THEN Fail(pd, ErrTruncated)
    ELSE [pd EXCEPT !.v = <<SignedBigEndian(SubSeq(pd.raw, pd.off + 1, pd.off + 4)),
                            SignedBigEndian(SubSeq(pd.raw, pd.off + 5, pd.off + 8))>>,
                    !.off = pd.off + 8]

getBool(pd) ==
    LET p == getUint(pd, 1) IN
    IF Failed(p) THEN p ELSE [p EXCEPT !.v = (p.v # 0)]

\* a raw slice of n bytes
getRawBytes(pd, n) ==
    IF Failed(pd) THEN pd
    ELSE IF n < 0 \/ remaining(pd) < n THEN Fail(pd, ErrTruncated)
    ELSE [pd EXCEPT !.v = SubSeq(pd.raw, pd.off + 1, pd.off + n), !.off = pd.off + n]

\* length-prefixed string (i16 length); a negative length asks for no bytes
getString(pd) ==
    LET p == getInt16(pd) IN
    IF Failed(p) THEN p
    ELSE IF p.v <= 0 THEN [p EXCEPT !.v = EmptyStr]
    ELSE getRawBytes(p, p.v)

\* nullable string (i16 length, -1 is absent); v is <<present, string>>
getNullableString(pd) ==
    LET p == getInt16(pd) IN
    IF Failed(p) THEN p
    ELSE IF p.v < 0 THEN [p EXCEPT !.v = <<FALSE, EmptyStr>>]
    ELSE LET q == getRawBytes(p, p.v) IN
         IF Failed(q) THEN q ELSE [q EXCEPT !.v = <<TRUE, q.v>>]

\* length-prefixed bytes (i32 length); a negative length asks for no bytes
getBytes(pd) ==
    LET p == getInt32(pd) IN
    IF Failed(p) THEN p
    ELSE IF p.v <= 0 THEN [p EXCEPT !.v = EmptyStr]
    ELSE getRawBytes(p, p.v)

\* array length (i32), MalformedLength if negative
getArrayLength(pd) ==
    LET p == getInt32(pd) IN
    IF Failed(p) THEN p
    ELSE IF p.v < 0 THEN Fail(p, ErrMalformedLength)
    ELSE p

\* skip n bytes
discard(pd, n) ==
    IF Failed(pd) THEN pd
    ELSE IF n < 0 \/ remaining(pd) < n THEN Fail(pd, ErrTruncated)
    ELSE [pd EXCEPT !.off = pd.off + n]

(***************************************************************************)
(* make([]T, n): the slice header is elemSize bytes per element.  A        *)
(* request larger than what the host can map ends the process with a       *)
(* fatal "out of memory"; whether it does depends on the host, so the      *)
(* outcome of such a request is either.  hostGrants is the host's answer.  *)
(***************************************************************************)
MakeSucceeds(n, elemSize, hostGrants) == n <= AlwaysAllocatable \div elemSize \/ hostGrants


\* make([]T, n) inside a decoder: a failed request is fatal to the process
Make(pd, n, elemSize) ==
    IF Failed(pd) THEN pd
    ELSE IF MakeSucceeds(n, elemSize, pd.host) THEN pd
    ELSE Fail(pd, ErrOutOfMemory)

(***************************************************************************)
(* Go slices are indexed from 0: s[i] is At(s, i), s[a:b] is Slice(s,a,b). *)
(***************************************************************************)
At(s, i) == s[i + 1]

Slice(s, a, b) == SubSeq(s, a + 1, b)

\* the least index i in from..Len(s)-1 whose byte satisfies in \in bytes, -1 if none
IndexOfAny(s, from, bytes) ==
    LET hits == {i \in from..(Len(s) - 1) : At(s, i) \in bytes}
    IN IF hits = {} THEN -1 ELSE CHOOSE i \in hits : \A j \in hits : i <= j

\* the least index i in from..Len(s)-1 whose byte is not in bytes, -1 if none
IndexOfNone(s, from, bytes) ==
    LET hits == {i \in from..(Len(s) - 1) : At(s, i) \notin bytes}
    IN IF hits = {} THEN -1 ELSE CHOOSE i \in hits : \A j \in hits : i <= j

\* bytes.Index(s, sub): where sub first occurs in s, -1 if nowhere
Index(s, sub) ==
    LET hits == {i \in 0..(Len(s) - Len(sub)) : Slice(s, i, i + Len(sub)) = sub}
    IN IF hits = {} THEN -1 ELSE CHOOSE i \in hits : \A j \in hits : i <= j

\* bytes.Contains / strings.Contains
Contains(s, sub) == Index(s, sub) >= 0

\* the bodies the decoders produce: the fields the orchestrator reads
EmptyBody(type) ==
    [type |-> type, topics |-> {}, Mechanism |-> EmptyStr, Username |-> EmptyStr,
     Password |-> EmptyStr, SaslAuthBytes |-> EmptyStr, ApiName |-> EmptyStr, blocks |-> 0]

(***************************************************************************)
(* FetchRequest                                                            *)
(***************************************************************************)
\* a field that only some versions carry: F reads it
When(present, F(_), pd) == IF present THEN F(pd) ELSE pd

\* fetchRequestBlock.decode
FetchBlockDecode(pd, version) ==
    getInt32(When(version >= 5, getInt64, getInt64(When(version >= 9, getInt32, pd))))

RECURSIVE FetchPartitions(_, _, _, _)
\* the loop over the partitions of one topic; parts is r.blocks[topic]
FetchPartitions(pd, n, version, parts) ==
    LET block(p1, p2) ==
            IF Failed(p2) THEN [pd |-> p2, parts |-> parts]
            ELSE FetchPartitions(p2, n - 1, version, parts \cup {p1.v})
        partition(p1) == block(p1, FetchBlockDecode(p1, version))
    IN IF Failed(pd) \/ n = 0 THEN [pd |-> pd, parts |-> parts]
       ELSE partition(getInt32(pd))

RECURSIVE FetchTopics(_, _, _, _)
\* the loop over the topics; blocks is r.blocks: topic -> set of partitions
FetchTopics(pd, n, version, blocks) ==
    LET next(name, ps) == FetchTopics(ps.pd, n - 1, version, MapPut(blocks, name, ps.parts))
        partitions(p1, p2) ==
            IF Failed(p2) THEN [pd |-> p2, blocks |-> blocks]
            ELSE next(p1.v, FetchPartitions(p2, p2.v, version, {}))
        topic(p1) == partitions(p1, getArrayLength(p1))
    IN IF Failed(pd) \/ n = 0 THEN [pd |-> pd, blocks |-> blocks]
       ELSE topic(getString(pd))

RECURSIVE FetchForgottenPartitions(_, _)
FetchForgottenPartitions(pd, n) ==
    IF Failed(pd) \/ n = 0 THEN pd
    ELSE FetchForgottenPartitions(getInt32(pd), n - 1)

RECURSIVE FetchForgotten(_, _)
\* the loop over the forgotten topics, with its make([]int32, partitionCount)
FetchForgotten(pd, n) ==
    LET made(p2, p3) ==
            IF Failed(p3) THEN p3
            ELSE FetchForgotten(FetchForgottenPartitions(p3, p2.v), n - 1)
        partitions(p2) == made(p2, Make(p2, p2.v, 4))
    IN IF Failed(pd) \/ n = 0 THEN pd
       ELSE partitions(getArrayLength(getString(pd)))

\* r.blocks as ExtractTopics and GetRequestedBlocksCount read it
RECURSIVE SumOfSizes(_)
SumOfSizes(blocks) ==
    IF DOMAIN blocks = {} THEN 0
    ELSE LET k == CHOOSE x \in DOMAIN blocks : TRUE
         IN Cardinality(blocks[k]) + SumOfSizes(MapDel(blocks, k))

FetchRequestDecode(pd, version) ==
    LET sessionFields(p) == getInt32(getInt32(p))
        forgotten(c) == FetchForgotten(c, c.v)
        forgottenTopics(p) == forgotten(getArrayLength(p))
        tail(ts) ==
            [pd |-> When(version >= 11, getString, When(version >= 7, forgottenTopics, ts.pd)),
             body |-> [EmptyBody("Fetch") EXCEPT !.topics = DOMAIN ts.blocks,
                                                 !.blocks = SumOfSizes(ts.blocks)]]
        topics(p7) ==
            IF Failed(p7) \/ p7.v = 0
            THEN [pd |-> p7, body |-> EmptyBody("Fetch")]
            ELSE tail(FetchTopics(p7, p7.v, version, EmptyMap))
    IN topics(getArrayLength(
                  When(version >= 7, sessionFields,
                       When(version >= 4, getInt8,
                            When(version >= 3, getInt32,
                                 getInt32(getInt32(getInt32(pd))))))))

(***************************************************************************)
(* DeleteTopicsRequest, DescribeGroupsRequest                              *)
(***************************************************************************)
RECURSIVE GetStrings(_, _, _)
\* for i := 0; i < n; i++ { s, err := pd.getString(); ...; out[i] = s }
GetStrings(pd, n, out) ==
    LET read(p) == IF Failed(p) THEN [pd |-> p, out |-> out]
                   ELSE GetStrings(p, n - 1, Append(out, p.v))
    IN IF Failed(pd) \/ n = 0 THEN [pd |-> pd, out |-> out]
       ELSE read(getString(pd))

Range(seq) == {seq[i] : i \in DOMAIN seq}

DeleteTopicsRequestDecode(pd, version) ==
    LET done(ts) ==
            [pd |-> getInt32(ts.pd),
             body |-> [EmptyBody("DeleteTopics") EXCEPT !.topics = Range(ts.out)]]
        topics(p1) ==
            IF Failed(p1) \/ p1.v = 0
            THEN [pd |-> p1, body |-> EmptyBody("DeleteTopics")]
            ELSE done(GetStrings(Make(p1, p1.v, 16), p1.v, << >>))
    IN topics(getArrayLength(pd))

DescribeGroupsRequestDecode(pd, version) ==
    LET groups(p1) ==
            IF Failed(p1) \/ p1.v = 0
            THEN [pd |-> p1, body |-> EmptyBody("DescribeGroups")]
            ELSE [pd |-> GetStrings(Make(p1, p1.v, 16), p1.v, << >>).pd,
                  body |-> EmptyBody("DescribeGroups")]
    IN groups(getArrayLength(pd))

(***************************************************************************)
(* DescribeConfigsRequest                                                  *)
(***************************************************************************)
RECURSIVE DescribeConfigsResources(_, _, _)
\* the loop over r.Resources; topics collects the names of the resources of
\* type 1, which is what ExtractTopics returns
DescribeConfigsResources(pd, n, topics) ==
    LET names(p3, seen) ==
            IF p3.v > ConfigNamesCeiling
            THEN [pd |-> Fail(p3, PacketDecodingError(<<105,110,118,97,108,105,100,32,99,111,110,102,105,103,78,97,109,101,115,32,97,114,114,97,121,32,108,101,110,103,116,104>>)),
                  topics |-> seen]
            ELSE IF p3.v <= 0
            THEN DescribeConfigsResources(p3, n - 1, seen)
            ELSE DescribeConfigsResources(
                     GetStrings(Make(p3, p3.v, 16), p3.v, << >>).pd, n - 1, seen)
        count(p1, p2, p3) ==
            IF Failed(p3) THEN [pd |-> p3, topics |-> topics]
            ELSE names(p3, IF p1.v = 1 THEN topics \cup {p2.v} ELSE topics)
        name(p1, p2) == count(p1, p2, getArrayLength(p2))
        resource(p1) == name(p1, getString(p1))
    IN IF Failed(pd) \/ n = 0 THEN [pd |-> pd, topics |-> topics]
       ELSE resource(getInt8(pd))

DescribeConfigsRequestDecode(pd, version) ==
    LET done(rs) ==
            [pd |-> When(version >= 1, getBool, rs.pd),
             body |-> [EmptyBody("DescribeConfigs") EXCEPT !.topics = rs.topics]]
        made(p1, p2) ==
            done(DescribeConfigsResources(p2, IF Failed(p2) THEN 0 ELSE p1.v, {}))
        resources(p1) == made(p1, Make(p1, p1.v, 48))
    IN resources(getArrayLength(pd))


(***************************************************************************)
(* ListOffsetsRequest, MetadataRequest: decoding inside a recovery         *)
(* boundary; a failed read panics, the panic empties the topic list, and   *)
(* Decode returns nil.                                                     *)
(***************************************************************************)
ErrPanic == [kind |-> "panic", pde |-> FALSE, text |-> EmptyStr]

Recovered(pd) == [pd EXCEPT !.err = NoError]

\* pd.getRawBytes(pd.remaining()), errors ignored
SkipRemaining(pd) ==
    IF remaining(pd) > 0 THEN Recovered(getRawBytes(pd, remaining(pd))) ELSE pd

RECURSIVE ListOffsetsPartitions(_, _)
ListOffsetsPartitions(pd, n) ==
    IF Failed(pd) \/ n = 0 THEN pd
    ELSE ListOffsetsPartitions(getInt64(getInt32(pd)), n - 1)

RECURSIVE ListOffsetsTopics(_, _, _)
ListOffsetsTopics(pd, n, out) ==
    LET partitions(p1, p2) ==
            IF Failed(p2) THEN [pd |-> p2, out |-> out]
            ELSE IF p2.v < 0 \/ p2.v > CountCeiling
            THEN [pd |-> Fail(p2, ErrPanic), out |-> out]
            ELSE ListOffsetsTopics(ListOffsetsPartitions(p2, p2.v), n - 1, Append(out, p1.v))
        topic(p1) == partitions(p1, getArrayLength(p1))
    IN IF Failed(pd) \/ n = 0 THEN [pd |-> pd, out |-> out]
       ELSE topic(getString(pd))

ListOffsetsRequestDecode(pd, version) ==
    LET done(ts) ==
            [pd |-> SkipRemaining(Recovered(ts.pd)),
             body |-> [EmptyBody("ListOffsets") EXCEPT
                         !.topics = IF Failed(ts.pd) THEN {} ELSE Range(ts.out)]]
        topics(p2) ==
            done(IF Failed(p2) THEN [pd |-> p2, out |-> << >>]
                 ELSE IF p2.v < 0 \/ p2.v > CountCeiling
                 THEN [pd |-> Fail(p2, ErrPanic), out |-> << >>]
                 ELSE ListOffsetsTopics(p2, p2.v, << >>))
    IN topics(getArrayLength(getInt32(pd)))

\* MetadataRequest.Decode without its fallback for an array of no topics:
\* the length is reported as malformed
MetadataRequestDecodeRejectsEmpty(pd, version) ==
    LET done(ts) ==
            IF Failed(ts.pd)
            THEN [pd |-> SkipRemaining(Recovered(ts.pd)), body |-> EmptyBody("Metadata")]
            ELSE [pd |-> ts.pd,
                  body |-> [EmptyBody("Metadata") EXCEPT !.topics = Range(ts.out)]]
        topics(p1) ==
            IF ~Failed(p1) /\ p1.v <= 0
            THEN [pd |-> Fail(p1, ErrMalformedLength), body |-> EmptyBody("Metadata")]
            ELSE IF Failed(p1) \/ p1.v > CountCeiling
            THEN [pd |-> Recovered(p1), body |-> EmptyBody("Metadata")]
            ELSE done(GetStrings(p1, p1.v, << >>))
    IN topics(getArrayLength(pd))

MetadataRequestDecode(pd, version) ==
    LET done(ts) ==
            IF Failed(ts.pd)
            THEN [pd |-> SkipRemaining(Recovered(ts.pd)), body |-> EmptyBody("Metadata")]
            ELSE [pd |-> ts.pd,
                  body |-> [EmptyBody("Metadata") EXCEPT !.topics = Range(ts.out)]]
        topics(p1) ==
            IF Failed(p1) \/ p1.v <= 0 \/ p1.v > CountCeiling
            THEN [pd |-> Recovered(p1), body |-> EmptyBody("Metadata")]
            ELSE done(GetStrings(p1, p1.v, << >>))
    IN topics(getArrayLength(pd))

(***************************************************************************)
(* FindCoordinatorRequest, ApiVersionsRequest, SaslHandshakeRequest        *)
(***************************************************************************)
FindCoordinatorRequestDecode(pd, version) ==
    [pd |-> When(version >= 1, getInt8, getString(pd)),
     body |-> EmptyBody("FindCoordinator")]

\* pd.getRawBytes(pd.remaining()) when bytes remain
TakeRemaining(pd) == IF remaining(pd) > 0 THEN getRawBytes(pd, remaining(pd)) ELSE pd

ApiVersionsRequestDecode(pd, version) ==
    LET clientSoftware(p) == Recovered(getNullableString(Recovered(getNullableString(p))))
    IN [pd |-> TakeRemaining(When(version >= 3 /\ remaining(pd) > 0, clientSoftware, pd)),
        body |-> EmptyBody("ApiVersions")]

SaslHandshakeRequestDecode(pd, version) ==
    LET mechanism(p1) ==
            [pd |-> p1,
             body |-> IF Failed(p1) THEN EmptyBody("SaslHandshake")
                      ELSE [EmptyBody("SaslHandshake") EXCEPT !.Mechanism = p1.v]]
    IN mechanism(getString(pd))

(***************************************************************************)
(* GenericRequest: keeps the api name, skips the bytes                     *)
(***************************************************************************)
GenericRequestDecode(pd, version, apiName) ==
    LET clientId(p1) ==
            IF Failed(p1) THEN Recovered(p1)
            ELSE IF remaining(p1) > 2 THEN Recovered(getString(p1)) ELSE p1
    IN [pd |-> TakeRemaining(clientId(When(remaining(pd) > 4, getInt32, pd))),
        body |-> [EmptyBody("Generic") EXCEPT !.ApiName = apiName]]

(***************************************************************************)
(* ProduceRequest.  Its decoder is not among the sources; it is modelled   *)
(* after spec.md 3 and 4.4: the fields of the protocol, only the topic     *)
(* names kept, counts above the safety ceiling malformed.                  *)
(***************************************************************************)
RECURSIVE ProducePartitions(_, _)
ProducePartitions(pd, n) ==
    IF Failed(pd) \/ n = 0 THEN pd
    ELSE ProducePartitions(getBytes(getInt32(pd)), n - 1)

RECURSIVE ProduceTopics(_, _, _)
ProduceTopics(pd, n, out) ==
    LET partitions(p1, p2) ==
            IF Failed(p2) THEN [pd |-> p2, out |-> out]
            ELSE IF p2.v > CountCeiling
            THEN [pd |-> Fail(p2, ErrMalformedLength), out |-> out]
            ELSE ProduceTopics(ProducePartitions(p2, p2.v), n - 1, out \cup {p1.v})
        topic(p1) == partitions(p1, getArrayLength(p1))
    IN IF Failed(pd) \/ n = 0 THEN [pd |-> pd, out |-> out]
       ELSE topic(getString(pd))

ProduceRequestDecode(pd, version) ==
    LET done(ts) == [pd |-> ts.pd, body |-> [EmptyBody("Produce") EXCEPT !.topics = ts.out]]
        topics(p3) ==
            done(IF Failed(p3) THEN [pd |-> p3, out |-> {}]
                 ELSE IF p3.v > CountCeiling
                 THEN [pd |-> Fail(p3, ErrMalformedLength), out |-> {}]
                 ELSE ProduceTopics(p3, p3.v, {}))
    IN topics(getArrayLength(getInt32(getInt16(When(version >= 3, getNullableString, pd)))))


(***************************************************************************)
(* SaslAuthenticateRequest and the identity it derives from the auth bytes *)
(***************************************************************************)
\* base64.RawURLEncoding: the value of a character of the alphabet
B64Value(c) ==
    IF c >= 65 /\ c <= 90 THEN c - 65
    ELSE IF c >= 97 /\ c <= 122 THEN c - 71
    ELSE IF c >= 48 /\ c <= 57 THEN c + 4
    ELSE IF c = 45 THEN 62
    ELSE IF c = 95 THEN 63
    ELSE -1

\* s without its carriage returns and line feeds, which the decoder skips
B64Strip(s) == SelectSeq(s, LAMBDA c : c # 10 /\ c # 13)

\* base64.RawURLEncoding.DecodeString: <<ok, bytes>>
B64Decode(s) ==
    LET cs == B64Strip(s)
        n == Len(cs)
        v(i) == B64Value(At(cs, i))
        byte(k) == LET idx == (8 * k) \div 6
                       shift == (8 * k) % 6
                   IN IF shift = 0 THEN v(idx) * 4 + v(idx + 1) \div 16
                      ELSE IF shift = 2 THEN (v(idx) % 16) * 16 + v(idx + 1) \div 4
                      ELSE (v(idx) % 4) * 64 + v(idx + 1)
    IN IF (\E i \in 0..(n - 1) : v(i) < 0) \/ n % 4 = 1
       THEN <<FALSE, EmptyStr>>
       ELSE <<TRUE, [k \in 1..((6 * n) \div 8) |-> byte(k - 1)]>>

Printable(b) == b >= 32 /\ b < 127

PrintableBytes == {b \in 0..255 : Printable(b)}

\* approach 1: [0x00][username][0x00][password]
TryPlain(a) ==
    LET second == IndexOfAny(a, 1, {0})
        passwordStart == IF second >= 0 THEN second + 1 ELSE -1
    IN IF At(a, 0) = 0 /\ passwordStart > 1 /\ passwordStart < Len(a)
       THEN [found |-> TRUE, Mechanism |-> <<80,76,65,73,78>>,
             Username |-> Slice(a, 1, passwordStart - 1),
             Password |-> IF Len(a) - passwordStart > 0 THEN <<42,42,42,42,42,42>> ELSE EmptyStr]
       ELSE [found |-> FALSE]

\* approach 2: the first "n=" that is followed by a non-empty run up to a comma
TryScram(a) ==
    LET ends(i) == IndexOfAny(a, i + 2, {44})
        hits == {i \in 0..(Len(a) - 3) :
                    At(a, i) = 110 /\ At(a, i + 1) = 61 /\ ends(i) > i + 2}
    IN IF hits = {} THEN [found |-> FALSE]
       ELSE LET i == CHOOSE x \in hits : \A y \in hits : x <= y
            IN [found |-> TRUE, Mechanism |-> <<83,67,82,65,77>>,
                Username |-> Slice(a, i + 2, ends(i)), Password |-> EmptyStr]

\* approach 3: header.payload.signature with a "sub" claim in the payload
TryJwt(a) ==
    LET claim(payload, subStart, subEnd) ==
            IF subEnd > subStart
            THEN [found |-> TRUE, Mechanism |-> <<74,87,84>>,
                  Username |-> Slice(payload, subStart, subEnd), Password |-> EmptyStr]
            ELSE [found |-> FALSE]
        sub(payload, subIndex) ==
            IF subIndex >= 0
            THEN claim(payload, subIndex + 7, IndexOfAny(payload, subIndex + 7, {34}))
            ELSE [found |-> FALSE]
        payload(dec) ==
            IF dec[1] /\ Len(dec[2]) > 0
            THEN sub(dec[2], Index(dec[2], <<34,115,117,98,34,58,34>>))
            ELSE [found |-> FALSE]
        middle(d1) == Slice(a, d1 + 1, IndexOfAny(a, d1 + 1, {Dot}))
    IN IF CountByte(a, Dot) # 2 THEN [found |-> FALSE]
       ELSE payload(B64Decode(middle(IndexOfAny(a, 0, {Dot}))))

\* approach 4: the first run of printable bytes, if 3 to 100 bytes long
TryGeneric(a) ==
    LET run(start, end) ==
            IF start >= 0 /\ end - start >= 3 /\ end - start <= 100
            THEN [found |-> TRUE, Mechanism |-> <<85,78,75,78,79,87,78>>,
                  Username |-> Slice(a, start, end), Password |-> EmptyStr]
            ELSE [found |-> FALSE]
        stop(start, at) == run(start, IF at < 0 THEN Len(a) ELSE at)
        from(start) == stop(start, IF start >= 0 THEN IndexOfNone(a, start, PrintableBytes)
                                   ELSE -1)
    IN from(IndexOfAny(a, 0, PrintableBytes))

\* tryDecodePlainAuth: the first approach that finds an identity
tryDecodePlainAuth(authBytes) ==
    LET none == [found |-> FALSE, Mechanism |-> EmptyStr, Username |-> EmptyStr,
                 Password |-> EmptyStr]
        first(plain, scram, jwt, generic) ==
            IF plain.found THEN plain
            ELSE IF scram.found THEN scram
            ELSE IF jwt.found THEN jwt
            ELSE IF generic.found THEN generic
            ELSE none
    IN IF Len(authBytes) < 3 THEN none
       ELSE first(TryPlain(authBytes), TryScram(authBytes), TryJwt(authBytes),
                  TryGeneric(authBytes))

SaslAuthenticateRequestDecode(pd, version) ==
    LET identity(p1, d) ==
            [pd |-> p1,
             body |-> [EmptyBody("SaslAuthenticate") EXCEPT
                         !.SaslAuthBytes = p1.v,
                         !.Mechanism = d.Mechanism, !.Username = d.Username,
                         !.Password = d.Password]]
        auth(p1) ==
            IF Failed(p1) THEN [pd |-> p1, body |-> EmptyBody("SaslAuthenticate")]
            ELSE identity(p1, tryDecodePlainAuth(p1.v))
    IN auth(getBytes(pd))

(***************************************************************************)
(* allocateBody: the body variant of an api key                            *)
(***************************************************************************)
StructuredBody ==
    (0 :> "Produce") @@ (1 :> "Fetch") @@ (2 :> "ListOffsets") @@ (3 :> "Metadata") @@
    (8 :> "DescribeGroups") @@ (10 :> "FindCoordinator") @@ (17 :> "SaslHandshake") @@
    (18 :> "ApiVersions") @@ (19 :> "DeleteTopics") @@ (32 :> "DescribeConfigs") @@
    (36 :> "SaslAuthenticate")

GenericApiName ==
    (4 :> "LeaderAndIsr") @@
    (5 :> "StopReplica") @@
    (6 :> "UpdateMetadata") @@
    (7 :> "ControlledShutdown") @@
    (9 :> "OffsetFetch") @@
    (11 :> "JoinGroup") @@
    (12 :> "Heartbeat") @@
    (13 :> "LeaveGroup") @@
    (14 :> "SyncGroup") @@
    (15 :> "DescribeGroups") @@
    (16 :> "ListGroups") @@
    (20 :> "DeleteRecords") @@
    (21 :> "InitProducerId") @@
    (22 :> "OffsetForLeaderEpoch") @@
    (23 :> "AddPartitionsToTxn") @@
    (24 :> "AddOffsetsToTxn") @@
    (25 :> "EndTxn") @@
    (26 :> "WriteTxnMarkers") @@
    (27 :> "TxnOffsetCommit") @@
    (28 :> "DescribeAcls") @@
    (29 :> "CreateAcls") @@
    (30 :> "DeleteAcls") @@
    (31 :> "DeleteAcls") @@
    (33 :> "AlterConfigs") @@
    (34 :> "AlterReplicaLogDirs") @@
    (35 :> "DescribeLogDirs") @@
    (37 :> "CreatePartitions") @@
    (38 :> "CreateDelegationToken") @@
    (39 :> "RenewDelegationToken") @@
    (40 :> "ExpireDelegationToken") @@
    (41 :> "DescribeDelegationToken") @@
    (42 :> "DeleteGroups") @@
    (43 :> "ElectLeaders") @@
    (44 :> "IncrementalAlterConfigs") @@
    (45 :> "AlterPartitionReassignments") @@
    (46 :> "ListPartitionReassignments") @@
    (47 :> "OffsetDelete") @@
    (48 :> "DescribeClientQuotas") @@
    (49 :> "AlterClientQuotas") @@
    (50 :> "DescribeUserScramCredentials") @@
    (51 :> "AlterUserScramCredentials") @@
    (52 :> "VoteRequest") @@
    (53 :> "BeginQuorumEpoch") @@
    (54 :> "EndQuorumEpoch") @@
    (55 :> "DescribeQuorum") @@
    (56 :> "AlterIsr") @@
    (57 :> "UpdateFeatures") @@
    (58 :> "Envelope") @@
    (59 :> "FetchSnapshot") @@
    (60 :> "DescribeCluster") @@
    (61 :> "DescribeProducers") @@
    (62 :> "BrokerRegistration") @@
    (63 :> "BrokerHeartbeat") @@
    (64 :> "UnregisterBroker") @@
    (65 :> "DescribeTransactions") @@
    (66 :> "ListTransactions") @@
    (67 :> "AllocateProducerIds") @@
    (68 :> "ConsumerGroupHeartbeat") @@
    (69 :> "ConsumerGroupDescribe") @@
    (71 :> "GetTelemetrySubscriptions") @@
    (72 :> "PushTelemetry") @@
    (74 :> "ListClientMetricsResources") @@
    (75 :> "DescribeTopicPartitions") @@
    (80 :> "AddRaftVoter") @@
    (81 :> "RemoveRaftVoter")

allocateBody(key, version) ==
    IF key \in DOMAIN StructuredBody THEN [type |-> StructuredBody[key], ApiName |-> ""]
    ELSE IF key \in DOMAIN GenericApiName
    THEN [type |-> "Generic", ApiName |-> GenericApiName[key]]
    ELSE [type |-> "Generic", ApiName |-> "Unknown(" \o ToString(key) \o ")"]

\* r.Body.Decode(pd, r.Version) for the body allocateBody chose
BodyDecode(alloc, pd, version) ==
    CASE alloc.type = "Produce" -> ProduceRequestDecode(pd, version)
      [] alloc.type = "Fetch" -> FetchRequestDecode(pd, version)
      [] alloc.type = "ListOffsets" -> ListOffsetsRequestDecode(pd, version)
      [] alloc.type = "Metadata" -> MetadataRequestDecode(pd, version)
      [] alloc.type = "DescribeGroups" -> DescribeGroupsRequestDecode(pd, version)
      [] alloc.type = "FindCoordinator" -> FindCoordinatorRequestDecode(pd, version)
      [] alloc.type = "SaslHandshake" -> SaslHandshakeRequestDecode(pd, version)
      [] alloc.type = "ApiVersions" -> ApiVersionsRequestDecode(pd, version)
      [] alloc.type = "DeleteTopics" -> DeleteTopicsRequestDecode(pd, version)
      [] alloc.type = "DescribeConfigs" -> DescribeConfigsRequestDecode(pd, version)
      [] alloc.type = "SaslAuthenticate" -> SaslAuthenticateRequestDecode(pd, version)
      [] OTHER -> GenericRequestDecode(pd, version, alloc.ApiName)

\* Request.Decode with UsePreparedKeyVersion: correlation id, client id, body
RequestDecode(pd, key, version) ==
    LET p1 == getInt32(pd)
        p2 == getString(p1)
    IN IF Failed(p2) THEN [pd |-> p2, body |-> EmptyBody("none")]
       ELSE BodyDecode(allocateBody(key, version), p2, version)

\* Decode(buf, req): a decoder over buf handed to req.Decode.  It is not among
\* the sources; spec.md 4.3 has it return the body decoder's result.
Decode(encodedReq, key, version, hostGrants) ==
    LET result(d) == [err |-> d.pd.err, body |-> d.body]
    IN result(RequestDecode(NewDecoder(encodedReq, hostGrants), key, version))


(***************************************************************************)
(* DecodeRequest: the frame prefix and the size check.                     *)
(***************************************************************************)
MaxRequestSize == 104857600

NeedReadBytes == 8

ChunkSize == 4096

Min(a, b) == IF a < b THEN a ELSE b

\* a reader that never reports the end of the stream inside a body: the read
\* of a body that is not there in full waits
FrameReadWaits(size, availBody, ended) ==
    LET length == Sub32(size, 4) IN
    IF length < 0
    THEN [outcome |-> "negative", length |-> length, readBytes |-> NeedReadBytes, bodyRead |-> 0]
    ELSE IF length <= 4 \/ length > MaxRequestSize
    THEN [outcome |-> "bounds", length |-> length,
          readBytes |-> IF length > MaxInt32 - NeedReadBytes THEN MaxInt32
                        ELSE length + NeedReadBytes,
          bodyRead |-> 0]
    ELSE IF availBody >= length
    THEN [outcome |-> "body", length |-> length,
          readBytes |-> NeedReadBytes + length, bodyRead |-> length]
    ELSE [outcome |-> "block", length |-> length, readBytes |-> 0, bodyRead |-> availBody]

\* A count above MaxInt32 is kept as MaxInt32: no reader holds that many bytes.
\* What DecodeRequest does after the 8 prefix bytes, given the declared size,
\* the body bytes the reader can still deliver and whether the stream has
\* ended.  outcome "block" is a body read waiting for bytes; readBytes is the
\* count DecodeRequest returns, bodyRead the body bytes it took off the reader.
FrameRead(size, availBody, ended) ==
    LET length == Sub32(size, 4) IN
    IF length < 0
    THEN [outcome |-> "negative", length |-> length, readBytes |-> NeedReadBytes, bodyRead |-> 0]
    ELSE IF length <= 4 \/ length > MaxRequestSize
    THEN [outcome |-> "bounds", length |-> length,
          readBytes |-> IF length > MaxInt32 - NeedReadBytes THEN MaxInt32
                        ELSE length + NeedReadBytes,
          bodyRead |-> 0]
    ELSE IF availBody >= length
    THEN [outcome |-> "body", length |-> length,
          readBytes |-> NeedReadBytes + length, bodyRead |-> length]
    ELSE IF ~ended
    THEN [outcome |-> "block", length |-> length, readBytes |-> 0, bodyRead |-> availBody]
    ELSE LET chunk == Min(length, ChunkSize)
             totalRead == (availBody \div chunk) * chunk
         IN [outcome |-> "shortBody", length |-> length,
             readBytes |-> NeedReadBytes + totalRead, bodyRead |-> availBody]

NoRead == [outcome |-> "none", length |-> 0, readBytes |-> 0, bodyRead |-> 0]

\* declared sizes around both ends of the accepted range and of int32
FrameSizes ==
    {MinInt32, MinInt32 + 3, -1, 0, 3, 4, 5, 6, 8, 9, 12, MaxRequestSize - 1, MaxRequestSize,
     MaxRequestSize + 1, MaxRequestSize + 4, MaxRequestSize + 5, MaxInt32}

\* body bytes that follow the prefix on the reader
FrameAvail == {0, 1, 8, MaxRequestSize + 4}

\* a frame prefix with this declared size reaches the reader
FrameOffer ==
    /\ \E s \in FrameSizes, a \in FrameAvail, c \in BOOLEAN :
           frame' = [size |-> s, avail |-> a, ended |-> c, res |-> NoRead]
    /\ UNCHANGED notFrame

\* DecodeRequest has read the prefix and acts on the size
FrameDecode ==
    /\ frame.res = NoRead
    /\ frame' = [frame EXCEPT !.res = FrameRead(frame.size, frame.avail, frame.ended)]
    /\ UNCHANGED notFrame

FrameNext == FrameOffer \/ FrameDecode

(***************************************************************************)
(* The shared state one loop iteration of run reads and writes, as a value *)
(* the Go functions below take and return.                                 *)
(***************************************************************************)
World ==
    [gauge |-> gauge, relations |-> relations, rels |-> rels,
     authSessions |-> authSessions, ipToUsername |-> ipToUsername,
     clientProducerTopics |-> clientProducerTopics,
     clientConsumerTopics |-> clientConsumerTopics,
     userClientMapping |-> userClientMapping, clientUserMap |-> clientUserMap,
     ProducerUserTopicInfo |-> ProducerUserTopicInfo,
     ConsumerUserTopicInfo |-> ConsumerUserTopicInfo,
     AuthUserActivity |-> AuthUserActivity, AuthenticationInfo |-> AuthenticationInfo,
     RequestsCount |-> RequestsCount, BlocksRequested |-> BlocksRequested,
     defaultStorage |-> defaultStorage]

Commit(w) ==
    /\ gauge' = w.gauge
    /\ relations' = w.relations
    /\ rels' = w.rels
    /\ authSessions' = w.authSessions
    /\ ipToUsername' = w.ipToUsername
    /\ clientProducerTopics' = w.clientProducerTopics
    /\ clientConsumerTopics' = w.clientConsumerTopics
    /\ userClientMapping' = w.userClientMapping
    /\ clientUserMap' = w.clientUserMap
    /\ ProducerUserTopicInfo' = w.ProducerUserTopicInfo
    /\ ConsumerUserTopicInfo' = w.ConsumerUserTopicInfo
    /\ AuthUserActivity' = w.AuthUserActivity
    /\ AuthenticationInfo' = w.AuthenticationInfo
    /\ RequestsCount' = w.RequestsCount
    /\ BlocksRequested' = w.BlocksRequested
    /\ defaultStorage' = w.defaultStorage

\* metric.set: the gauge, then update()
metricSet(w, fam, labels) ==
    LET u == update(w.relations[fam], w.rels, fam, labels)
    IN [w EXCEPT !.gauge[fam] = GaugeSet(@, labels),
                 !.relations[fam] = u.relations, !.rels = u.rels]

\* metric.inc
metricInc(w, fam, labels) ==
    LET u == update(w.relations[fam], w.rels, fam, labels)
    IN [w EXCEPT !.gauge[fam] = GaugeInc(@, labels),
                 !.relations[fam] = u.relations, !.rels = u.rels]

\* for topic := range m[clientIP]
TopicsOf(m, clientIP) == IF clientIP \in DOMAIN m THEN m[clientIP] ELSE {}

\* vec.WithLabelValues(ip, username, t).Set(1) for every t of topics
SetAll(vec, clientIP, username, topics) ==
    [l \in DOMAIN vec \cup {<<clientIP, username, t>> : t \in topics} |-> 
        IF l[1] = clientIP /\ l[2] = username /\ l[3] \in topics THEN 1 ELSE vec[l]]

StorageAddProducerTopicRelationInfo(w, producer, topic) ==
    LET w1 == metricSet(w, "producer", <<producer, topic>>)
        w2 == [w1 EXCEPT !.clientProducerTopics =
                   MapPut(@, producer, TopicsOf(@, producer) \cup {topic})]
    IN IF producer \in DOMAIN w2.userClientMapping
       THEN [w2 EXCEPT !.ProducerUserTopicInfo =
                 SetAll(@, producer, w2.userClientMapping[producer].username, {topic})]
       ELSE w2

StorageAddConsumerTopicRelationInfo(w, consumer, topic) ==
    LET w1 == metricSet(w, "consumer", <<consumer, topic>>)
        w2 == [w1 EXCEPT !.clientConsumerTopics =
                   MapPut(@, consumer, TopicsOf(@, consumer) \cup {topic})]
    IN IF consumer \in DOMAIN w2.userClientMapping
       THEN [w2 EXCEPT !.ConsumerUserTopicInfo =
                 SetAll(@, consumer, w2.userClientMapping[consumer].username, {topic})]
       ELSE w2

AddActiveConnectionsTotal(w, clientIP) == metricInc(w, "active", <<clientIP>>)

\* the topics looked up under an endpoint key instead of the host's
GetClientProducerTopicsByEndpoint(w, clientIP) ==
    TopicsOf(w.clientProducerTopics, clientIP \o <<Colon, 48>>)

GetClientProducerTopics(w, clientIP) == TopicsOf(w.clientProducerTopics, clientIP)

GetClientConsumerTopics(w, clientIP) == TopicsOf(w.clientConsumerTopics, clientIP)

updateUserTopicMetrics(w, clientIP, username) ==
    [w EXCEPT !.ProducerUserTopicInfo =
                  SetAll(@, clientIP, username, TopicsOf(w.clientProducerTopics, clientIP)),
              !.ConsumerUserTopicInfo =
                  SetAll(@, clientIP, username, TopicsOf(w.clientConsumerTopics, clientIP))]

AddUserClientMapping(w, clientIP, username, mechanism) ==
    updateUserTopicMetrics(
        [w EXCEPT !.userClientMapping =
             MapPut(@, clientIP, [username |-> username, mechanism |-> mechanism])],
        clientIP, username)

setClientUser(w, clientIP, username, mechanism) ==
    [w EXCEPT !.clientUserMap =
         MapPut(@, clientIP, [username |-> username, mechanism |-> mechanism])]

updateTopicRelationshipsWithUsername(w, clientIP, username) ==
    IF ~w.defaultStorage THEN w
    ELSE [w EXCEPT !.ProducerUserTopicInfo =
                       SetAll(@, clientIP, username, GetClientProducerTopics(w, clientIP)),
                   !.ConsumerUserTopicInfo =
                       SetAll(@, clientIP, username, GetClientConsumerTopics(w, clientIP))]

RecordAuthUser(w, clientIP, username, mechanism) ==
    IF username = EmptyStr THEN w
    ELSE updateTopicRelationshipsWithUsername(
             setClientUser(
                 [w EXCEPT !.AuthUserActivity = GaugeSet(@, <<clientIP, username, mechanism>>)],
                 clientIP, username, mechanism),
             clientIP, username)

TrackSaslAuthentication(w, clientIP, mechanism, username) ==
    IF mechanism = EmptyStr THEN w
    ELSE LET w1 == [w EXCEPT !.AuthenticationInfo = GaugeInc(@, <<clientIP, mechanism, username>>)]
             w2 == RecordAuthUser(w1, clientIP, username, mechanism)
         IN IF username # EmptyStr /\ w2.defaultStorage
            THEN AddActiveConnectionsTotal(w2, clientIP)
            ELSE w2

(***************************************************************************)
(* getApiName (request_logger.go): the request_type label                  *)
(***************************************************************************)
ApiNames ==
    (0 :> "Produce") @@
    (1 :> "Fetch") @@
    (2 :> "ListOffsets") @@
    (3 :> "Metadata") @@
    (4 :> "LeaderAndIsr") @@
    (5 :> "StopReplica") @@
    (6 :> "UpdateMetadata") @@
    (7 :> "ControlledShutdown") @@
    (8 :> "OffsetCommit") @@
    (9 :> "OffsetFetch") @@
    (10 :> "FindCoordinator") @@
    (11 :> "JoinGroup") @@
    (12 :> "Heartbeat") @@
    (13 :> "LeaveGroup") @@
    (14 :> "SyncGroup") @@
    (15 :> "DescribeGroups") @@
    (16 :> "ListGroups") @@
    (17 :> "SaslHandshake") @@
    (18 :> "ApiVersions") @@
    (19 :> "CreateTopics") @@
    (20 :> "DeleteTopics") @@
    (21 :> "DeleteRecords") @@
    (22 :> "InitProducerId") @@
    (23 :> "OffsetForLeaderEpoch") @@
    (24 :> "AddPartitionsToTxn") @@
    (25 :> "AddOffsetsToTxn") @@
    (26 :> "EndTxn") @@
    (27 :> "WriteTxnMarkers") @@
    (28 :> "TxnOffsetCommit") @@
    (29 :> "DescribeAcls") @@
    (30 :> "CreateAcls") @@
    (31 :> "DeleteAcls") @@
    (32 :> "DescribeConfigs") @@
    (33 :> "AlterConfigs") @@
    (34 :> "AlterReplicaLogDirs") @@
    (35 :> "DescribeLogDirs") @@
    (36 :> "SaslAuthenticate") @@
    (37 :> "CreatePartitions") @@
    (38 :> "CreateDelegationToken") @@
    (39 :> "RenewDelegationToken") @@
    (40 :> "ExpireDelegationToken") @@
    (41 :> "DescribeDelegationToken") @@
    (42 :> "DeleteGroups") @@
    (43 :> "ElectLeaders") @@
    (44 :> "IncrementalAlterConfigs") @@
    (45 :> "AlterPartitionReassignments") @@
    (46 :> "ListPartitionReassignments") @@
    (47 :> "OffsetDelete") @@
    (48 :> "DescribeClientQuotas") @@
    (49 :> "AlterClientQuotas") @@
    (50 :> "DescribeUserScramCredentials") @@
    (51 :> "AlterUserScramCredentials") @@
    (52 :> "Vote") @@
    (53 :> "BeginQuorumEpoch") @@
    (54 :> "EndQuorumEpoch") @@
    (55 :> "DescribeQuorum") @@
    (56 :> "AlterPartition") @@
    (57 :> "UpdateFeatures") @@
    (58 :> "Envelope") @@
    (59 :> "FetchSnapshot") @@
    (60 :> "DescribeCluster") @@
    (61 :> "DescribeProducers") @@
    (62 :> "BrokerRegistration") @@
    (63 :> "BrokerHeartbeat") @@
    (64 :> "UnregisterBroker") @@
    (65 :> "DescribeTransactions") @@
    (66 :> "ListTransactions") @@
    (67 :> "AllocateProducerIds")

getApiName(key) ==
    IF key \in DOMAIN ApiNames THEN ApiNames[key]
    ELSE "Unknown(" \o ToString(key) \o ")"

(***************************************************************************)
(* Username extraction of package stream                                   *)
(***************************************************************************)
UpperBytes == 65..90

LowerBytes == 97..122

DigitBytes == 48..57

ToUpper(s) == [i \in DOMAIN s |-> IF s[i] \in LowerBytes THEN s[i] - 32 ELSE s[i]]

ToLower(s) == [i \in DOMAIN s |-> IF s[i] \in UpperBytes THEN s[i] + 32 ELSE s[i]]

HasPrefix(s, p) == Len(s) >= Len(p) /\ SubSeq(s, 1, Len(p)) = p

RECURSIVE SplitByte(_, _)
\* strings.Split(s, b) for a one-byte separator
SplitByte(s, b) ==
    LET i == IndexOfAny(s, 0, {b})
    IN IF i < 0 THEN <<s>>
       ELSE <<Slice(s, 0, i)>> \o SplitByte(Slice(s, i + 1, Len(s)), b)

isValidUsername(s) ==
    /\ Len(s) >= 3
    /\ Len(s) <= 100
    /\ \A i \in DOMAIN s : s[i] \in LowerBytes \cup UpperBytes \cup DigitBytes \cup {46, 95, 45, 64}

isPrintable(b) == b >= 32 /\ b < 127

isCommonWord(s) ==
    ToLower(s) \in
    {<<110,117,108,108>>,
     <<116,114,117,101>>,
     <<102,97,108,115,101>>,
     <<121,101,115>>,
     <<110,111>>,
     <<100,97,116,97>>,
     <<106,115,111,110>>,
     <<116,101,120,116>>,
     <<116,121,112,101>>,
     <<107,101,121>>,
     <<118,97,108,117,101>>,
     <<99,111,100,101>>,
     <<110,97,109,101>>,
     <<117,115,101,114>>,
     <<116,111,107,101,110>>}

extractPlainUsername(data) ==
    IF Len(data) < 3 \/ At(data, 0) # 0 THEN EmptyStr
    ELSE LET secondNull == IndexOfAny(data, 1, {0})
         IN IF secondNull > 1 /\ isValidUsername(Slice(data, 1, secondNull))
            THEN Slice(data, 1, secondNull)
            ELSE EmptyStr

extractScramUsername(data) ==
    LET idx == Index(data, <<110, 61>>)
        start == idx + 2
        end == IndexOfAny(data, start, {44, 0})
    IN IF idx >= 0 /\ idx + 2 < Len(data) /\ end > start
          /\ isValidUsername(Slice(data, start, end))
       THEN Slice(data, start, end)
       ELSE EmptyStr

extractGenericUsername(data) ==
    LET idx == Index(data, <<34,115,117,98,34,58,34>>)
        start == idx + 7
        end == IndexOfAny(data, start, {34})
        \* the maximal runs of printable bytes, in order
        runs == SplitByte([i \in DOMAIN data |-> IF isPrintable(data[i]) THEN data[i] ELSE 0], 0)
        good == SelectSeq(runs, LAMBDA c : Len(c) >= 3 /\ isValidUsername(c) /\ ~isCommonWord(c))
    IN IF idx >= 0 /\ idx + 7 < Len(data) /\ end > start
          /\ isValidUsername(Slice(data, start, end))
       THEN Slice(data, start, end)
       ELSE IF Len(good) > 0 THEN good[1] ELSE EmptyStr

\* extractSaslPlainUsername (auth_helper.go)
ConsoleProducer == <<99,111,110,115,111,108,101,45,112,114,111,100,117,99,101,114>>

CliProducer == <<67,76,73,45,80,82,79,68,85,67,69,82>>

\* where the run of [A-Z_0-9] that starts at i ends, at most 24 bytes on
UpperRunEnd(data, i) ==
    LET stop == IndexOfNone(data, i, UpperBytes \cup DigitBytes \cup {95})
        lim == Min(i + 24, Len(data))
    IN IF stop < 0 \/ stop > lim THEN lim ELSE stop

ConsoleCandidates(data) ==
    {i \in 0..(Len(data) - 9) :
        /\ At(data, i) \in UpperBytes
        /\ UpperRunEnd(data, i) - i >= 8
        /\ \E j \in i..(UpperRunEnd(data, i) - 1) : At(data, j) \in DigitBytes}

\* a part of the dotted rendering that is taken for a username
AcceptsPart(part) ==
    /\ Len(part) >= 8
    /\ Len(part) <= 24
    /\ ~Contains(ToLower(part), <<112,114,111,100,117,99,101,114>>)
    /\ ~Contains(ToLower(part), <<99,111,110,115,117,109,101,114>>)
    /\ ~Contains(ToLower(part), <<114,101,116,114,121>>)
    /\ \A i \in DOMAIN part : part[i] \in UpperBytes \cup DigitBytes
    /\ \E i \in DOMAIN part : part[i] \in UpperBytes
    /\ \E i \in DOMAIN part : part[i] \in DigitBytes
    /\ \/ (Len(part) >= 12 /\ Len(part) <= 18)
       \/ (/\ Cardinality({i \in DOMAIN part : part[i] \in UpperBytes}) >= 3
           /\ Cardinality({i \in DOMAIN part : part[i] \in DigitBytes}) >= 3)

extractSaslPlainUsername(data) ==
    LET run(i) == [username |-> Slice(data, i, UpperRunEnd(data, i)), ok |-> TRUE]
        candidate(c) ==
            IF c = {} THEN [username |-> CliProducer, ok |-> TRUE]
            ELSE run(CHOOSE x \in c : \A y \in c : x <= y)
        first(parts) ==
            IF Len(parts) > 0 THEN [username |-> parts[1], ok |-> TRUE]
            ELSE [username |-> EmptyStr, ok |-> FALSE]
        asciiFriendly ==
            [i \in DOMAIN data |-> IF data[i] >= 32 /\ data[i] <= 126 THEN data[i] ELSE Dot]
    IN IF Len(data) < 3 THEN [username |-> EmptyStr, ok |-> FALSE]
       ELSE IF Contains(data, ConsoleProducer) THEN candidate(ConsoleCandidates(data))
       ELSE first(SelectSeq(SplitByte(asciiFriendly, Dot), AcceptsPart))

(***************************************************************************)
(* The correlator as the orchestrator calls it                             *)
(***************************************************************************)
WorldStoreAuthHandshake(w, clientAddr, mechanism) ==
    [w EXCEPT !.authSessions = SessionsAfterStore(@, clientAddr, mechanism)]

WorldUpdateAuthSession(w, clientAddr, username) ==
    [w EXCEPT !.authSessions = SessionsAfterUpdate(@, clientAddr, username),
              !.ipToUsername = MapPut(@, extractBaseIP(clientAddr), username)]

MechanismPlain == <<80,76,65,73,78>>

\* tryExtractAuthData: rawData is what buf.Peek returned, the bytes the
\* bufio.Reader had buffered (at most 1024)
tryExtractAuthData(w, rawData, clientIP, mechanism) ==
    LET track(username) ==
            IF username = EmptyStr THEN w
            ELSE TrackSaslAuthentication(WorldUpdateAuthSession(w, clientIP, username),
                                         clientIP, mechanism, username)
    IN IF Len(rawData) < 8 THEN w
       ELSE track(IF ToUpper(mechanism) = MechanismPlain THEN extractPlainUsername(rawData)
                  ELSE IF HasPrefix(ToUpper(mechanism), <<83,67,82,65,77,45>>)
                  THEN extractScramUsername(rawData)
                  ELSE extractGenericUsername(rawData))

(***************************************************************************)
(* DecodeRequest over the bytes the flow's reader holds.  ended says that  *)
(* nothing will follow them.  consumed is what was taken off the reader,   *)
(* readBytes the count DecodeRequest returns.                              *)
(***************************************************************************)
ErrEOF == [kind |-> "EOF", pde |-> FALSE, text |-> <<69,79,70>>]

ErrUnexpectedEOF == [kind |-> "UnexpectedEOF", pde |-> FALSE, text |-> <<117,110,101,120,112,101,99,116,101,100,32,69,79,70>>]

\* fmt.Errorf("error reading request body after %d bytes: %w", ...)
ErrWrapped == [kind |-> "wrapped", pde |-> FALSE, text |-> <<101,114,114,111,114,32,114,101,97,100,105,110,103,32,114,101,113,117,101,115,116,32,98,111,100,121>>]

InvalidLength == <<105,110,118,97,108,105,100,32,108,101,110,103,116,104>>

NoRequest ==
    [outcome |-> "block", consumed |-> 0, readBytes |-> 0, err |-> NoError,
     size |-> 0, key |-> 0, version |-> 0, body |-> EmptyBody("none")]

\* head holds the fields of the prefix, fr is the read of the body, d what
\* Decode returned for it.  An error of Decode whose text holds "invalid
\* length" is wrapped in a PacketDecodingError.
DecodeRequest(bytes, ended, hostGrants) ==
    LET wrap(err) ==
            IF err # NoError /\ ~err.pde /\ err.kind \notin {"fatal", "panic"}
               /\ Contains(err.text, InvalidLength)
            THEN PacketDecodingError(err.text)
            ELSE err
        decoded(head, fr, d) ==
            [head EXCEPT !.outcome = "read", !.consumed = fr.readBytes,
                         !.readBytes = fr.readBytes, !.body = d.body, !.err = wrap(d.err)]
        body(head, fr, d) ==
            CASE fr.outcome \in {"negative", "bounds"} ->
                     [head EXCEPT !.outcome = "size", !.consumed = NeedReadBytes,
                                  !.readBytes = fr.readBytes,
                                  !.err = PacketDecodingError(InvalidLength)]
              [] fr.outcome = "block" -> head
              [] fr.outcome = "shortBody" ->
                     [head EXCEPT !.outcome = "shortBody",
                                  !.consumed = NeedReadBytes + fr.bodyRead,
                                  !.readBytes = fr.readBytes, !.err = ErrWrapped]
              [] OTHER -> decoded(head, fr, d)
        prefix(size, key, version) ==
            body([NoRequest EXCEPT !.size = size, !.key = key, !.version = version],
                 FrameRead(size, Len(bytes) - NeedReadBytes, ended),
                 Decode(SubSeq(bytes, NeedReadBytes + 1, NeedReadBytes + Sub32(size, 4)),
                        key, version, hostGrants))
    IN IF Len(bytes) < NeedReadBytes
       THEN IF ~ended THEN NoRequest
            ELSE [NoRequest EXCEPT !.outcome = "eof", !.consumed = Len(bytes),
                                   !.readBytes = Len(bytes),
                                   !.err = IF Len(bytes) = 0 THEN ErrEOF ELSE ErrUnexpectedEOF]
       ELSE prefix(SignedBigEndian(SubSeq(bytes, 1, 4)),
                   SignedBigEndian(SubSeq(bytes, 5, 6)),
                   SignedBigEndian(SubSeq(bytes, 7, 8)))

(***************************************************************************)
(* KafkaStream.run: the cases of the body switch                           *)
(***************************************************************************)
Flows == {"f1", "f2"}

\* h.net.Src(): both flows come from one host, from different ports
FlowSrc == [f \in Flows |-> IP1]

NewStream ==
    [pc |-> "init", clientAddress |-> EmptyStr, currentUsername |-> EmptyStr,
     currentMechanism |-> EmptyStr, lastSaslMechanism |-> EmptyStr]

\* the identity a Produce or Fetch case labels its topics with
ResolveUsername(s, w, srcHost) ==
    IF s.currentUsername # EmptyStr THEN s
    ELSE IF UsernameLookup(w.ipToUsername, s.clientAddress) # EmptyStr
    THEN [s EXCEPT !.currentUsername = UsernameLookup(w.ipToUsername, s.clientAddress)]
    ELSE LET session == SessionLookup(w.authSessions, w.ipToUsername, srcHost)
         IN IF session.found /\ session.Username # EmptyStr
            THEN [s EXCEPT !.currentUsername = session.Username,
                           !.currentMechanism = session.Mechanism]
            ELSE s

RECURSIVE ProduceCase(_, _, _, _)
\* case *kafka.ProduceRequest
ProduceCase(s, w, srcHost, topics) ==
    LET label(s2, w1, topic) ==
            ProduceCase(s2,
                        IF s2.currentUsername # EmptyStr
                        THEN [w1 EXCEPT !.ProducerUserTopicInfo =
                                  SetAll(@, s2.clientAddress, s2.currentUsername, {topic})]
                        ELSE w1,
                        srcHost, topics \ {topic})
        resolve(s1, w1, topic) == label(ResolveUsername(s1, w1, srcHost), w1, topic)
        add(s1, topic) ==
            resolve(s1, StorageAddProducerTopicRelationInfo(w, s1.clientAddress, topic), topic)
        address(topic) ==
            add(IF s.clientAddress = EmptyStr THEN [s EXCEPT !.clientAddress = srcHost] ELSE s,
                topic)
    IN IF topics = {} THEN [s |-> s, w |-> w]
       ELSE address(CHOOSE t \in topics : TRUE)

RECURSIVE FetchCase(_, _, _, _)
\* case *kafka.FetchRequest
FetchCase(s, w, srcHost, topics) ==
    LET label(s2, w1, topic) ==
            FetchCase(s2,
                      IF s2.currentUsername # EmptyStr
                      THEN [w1 EXCEPT !.ConsumerUserTopicInfo =
                                SetAll(@, s2.clientAddress, s2.currentUsername, {topic})]
                      ELSE w1,
                      srcHost, topics \ {topic})
        resolve(s1, w1, topic) == label(ResolveUsername(s1, w1, srcHost), w1, topic)
        add(s1, topic) ==
            resolve(s1, StorageAddConsumerTopicRelationInfo(w, s1.clientAddress, topic), topic)
        address(topic) ==
            add(IF s.clientAddress = EmptyStr THEN [s EXCEPT !.clientAddress = srcHost] ELSE s,
                topic)
    IN IF topics = {} THEN [s |-> s, w |-> w]
       ELSE address(CHOOSE t \in topics : TRUE)

RECURSIVE ListOffsetsCase(_, _, _, _)
\* case *kafka.ListOffsetsRequest
ListOffsetsCase(s, w, srcHost, topics) ==
    LET label(w1, topic) ==
            ListOffsetsCase(s,
                            IF s.currentUsername # EmptyStr
                            THEN [w1 EXCEPT !.ConsumerUserTopicInfo =
                                      SetAll(@, s.clientAddress, s.currentUsername, {topic})]
                            ELSE w1,
                            srcHost, topics \ {topic})
        add(topic) == label(StorageAddConsumerTopicRelationInfo(w, srcHost, topic), topic)
    IN IF topics = {} THEN [s |-> s, w |-> w]
       ELSE add(CHOOSE t \in topics : TRUE)

\* updateExistingTopicRelationships.  Its second test of an empty
\* clientAddress follows a return on that condition and never holds.
updateExistingTopicRelationships(s, w) ==
    LET fill(s1) ==
            IF s1.currentUsername = EmptyStr \/ s1.clientAddress = EmptyStr
            THEN [s |-> s1, w |-> w]
            ELSE [s |-> s1,
                  w |-> [w EXCEPT
                           !.ProducerUserTopicInfo =
                               SetAll(@, s1.clientAddress, s1.currentUsername,
                                      GetClientProducerTopics(w, s1.clientAddress)),
                           !.ConsumerUserTopicInfo =
                               SetAll(@, s1.clientAddress, s1.currentUsername,
                                      GetClientConsumerTopics(w, s1.clientAddress))]]
        adopt(session) ==
            fill(IF s.currentUsername = EmptyStr /\ s.clientAddress # EmptyStr
                    /\ session.found /\ session.Username # EmptyStr
                 THEN [s EXCEPT !.currentUsername = session.Username,
                                !.currentMechanism = session.Mechanism]
                 ELSE s)
    IN adopt(SessionLookup(w.authSessions, w.ipToUsername, s.clientAddress))

\* case *kafka.SaslAuthenticateRequest
SaslAuthenticateCase(s, w, srcHost, body) ==
    LET track(s1, w1) ==
            updateExistingTopicRelationships(
                s1,
                TrackSaslAuthentication(
                    [w1 EXCEPT !.AuthenticationInfo =
                         GaugeInc(@, <<s1.clientAddress, s1.currentMechanism,
                                       s1.currentUsername>>)],
                    s1.clientAddress, s1.currentMechanism, s1.currentUsername))
    IN IF body.Username = EmptyStr THEN [s |-> s, w |-> w]
       ELSE track([s EXCEPT !.clientAddress = srcHost, !.currentUsername = body.Username,
                            !.currentMechanism = body.Mechanism],
                  WorldUpdateAuthSession(WorldStoreAuthHandshake(w, srcHost, body.Mechanism),
                                         srcHost, body.Username))

\* case *kafka.SaslHandshakeRequest; peeked is what the reader had buffered
SaslHandshakeCase(s, w, srcHost, body, peeked) ==
    [s |-> [s EXCEPT !.currentMechanism = body.Mechanism],
     w |-> tryExtractAuthData(WorldStoreAuthHandshake(w, srcHost, body.Mechanism),
                              peeked, srcHost, body.Mechanism)]

\* logRequestHeaderDetails, the handshake bookkeeping and the body switch
ProcessRequest(s, w, srcHost, req, peeked) ==
    LET switch(s1, w1) ==
            CASE req.body.type = "Produce" -> ProduceCase(s1, w1, srcHost, req.body.topics)
              [] req.body.type = "Fetch" -> FetchCase(s1, w1, srcHost, req.body.topics)
              [] req.body.type = "ListOffsets" ->
                     ListOffsetsCase(s1, w1, srcHost, req.body.topics)
              [] req.body.type = "SaslAuthenticate" ->
                     SaslAuthenticateCase(s1, w1, srcHost, req.body)
              [] req.body.type = "SaslHandshake" ->
                     SaslHandshakeCase(s1, w1, srcHost, req.body, peeked)
              [] OTHER -> [s |-> s1, w |-> w1]
    IN switch(IF req.key = 17 /\ req.body.type = "SaslHandshake"
              THEN [s EXCEPT !.lastSaslMechanism = req.body.Mechanism]
              ELSE s,
              [w EXCEPT !.RequestsCount =
                   GaugeInc(@, <<srcHost, getApiName(req.key), req.version>>)])

(***************************************************************************)
(* One iteration of the loop of KafkaStream.run                            *)
(***************************************************************************)
\* the raw token branch, once io.ReadFull has the token; data is tokenData[4:]
RawTokenCase(s, w, srcHost, data) ==
    LET reset(u) == [s |-> [u.s EXCEPT !.lastSaslMechanism = EmptyStr], w |-> u.w]
        record(s1, username, mech) ==
            updateExistingTopicRelationships(
                s1,
                AddUserClientMapping(
                    RecordAuthUser(
                        AddActiveConnectionsTotal(
                            WorldUpdateAuthSession(WorldStoreAuthHandshake(w, srcHost, mech),
                                                   srcHost, username),
                            srcHost \o <<Colon>> \o username),
                        s1.clientAddress, username, mech),
                    s1.clientAddress, username, mech))
        found(r) ==
            IF r.ok
            THEN record([s EXCEPT !.clientAddress = srcHost, !.currentUsername = r.username,
                                  !.currentMechanism = s.lastSaslMechanism],
                        r.username, s.lastSaslMechanism)
            ELSE [s |-> s, w |-> w]
    IN reset(found(extractSaslPlainUsername(data)))

Blocked(s, w) ==
    [outcome |-> "block", s |-> s, w |-> w, used |-> 0, req |-> NoRequest]

\* bytes: what the reader holds; ended: nothing follows; buffered: how many
\* bytes past the request the bufio.Reader holds when a handshake peeks.
\* handled is an iteration that ran a handler, u being the stream and the
\* world the handler left; skipped is one that left both as they were.
Iterate(s, w, srcHost, bytes, ended, hostGrants, buffered) ==
    LET handled(outcome, u, used, req) ==
            [outcome |-> outcome, s |-> u.s, w |-> u.w, used |-> used, req |-> req]
        skipped(outcome, used, req) ==
            [outcome |-> outcome, s |-> s, w |-> w, used |-> used, req |-> req]
        discardRead(req, rest) ==
            \* buf.Discard(readBytes)
            IF rest < req.readBytes /\ ~ended THEN Blocked(s, w)
            ELSE skipped(IF req.outcome = "size" THEN "sizeError" ELSE "decodeError",
                         req.consumed + Min(rest, req.readBytes), req)
        decoded(req, u) ==
            CASE req.outcome = "block" -> Blocked(s, w)
              [] req.outcome = "eof" -> skipped("returned", req.consumed, req)
              [] req.outcome # "eof" /\ req.err.kind \in {"fatal", "panic"} ->
                     skipped("crashed", req.consumed, req)
              [] req.err.pde -> discardRead(req, Len(bytes) - req.consumed)
              [] req.outcome # "eof" /\ ~req.err.pde /\ req.err # NoError
                   /\ req.err.kind \notin {"fatal", "panic"} ->
                     skipped(IF req.outcome = "shortBody" THEN "readError" ELSE "decodeError",
                             req.consumed, req)
              [] OTHER -> handled("processed", u, req.consumed, req)
        process(req) ==
            decoded(req,
                    ProcessRequest(s, w, srcHost, req,
                                   SubSeq(bytes, req.consumed + 1,
                                          req.consumed
                                              + Min(buffered, Len(bytes) - req.consumed))))
        rawOn == s.lastSaslMechanism = MechanismPlain
        msgSize == BigEndian(SubSeq(bytes, 3, 4))
        looksRaw == /\ rawOn
                    /\ Len(bytes) >= 16
                    /\ bytes[1] = 0 /\ bytes[2] = 0 /\ msgSize < 1000
                    /\ bytes[5] = 0
    IN IF rawOn /\ Len(bytes) < 16 /\ ~ended THEN Blocked(s, w)
       ELSE IF looksRaw /\ Len(bytes) >= msgSize + 4
       THEN handled("rawToken", RawTokenCase(s, w, srcHost, SubSeq(bytes, 5, msgSize + 4)),
                    msgSize + 4, NoRequest)
       ELSE IF looksRaw /\ ~ended THEN Blocked(s, w)
       ELSE IF looksRaw THEN skipped("returned", Len(bytes), NoRequest)
       ELSE process(DecodeRequest(bytes, ended, hostGrants))

(***************************************************************************)
(* The frames the flows carry                                              *)
(***************************************************************************)
\* a Produce v0 for topic orders
FrameProduce == <<0,0,0,40,0,0,0,0,0,0,0,7,0,0,0,1,0,0,0,100,0,0,0,1,0,6,111,114,100,101,114,115,0,0,0,1,0,0,0,0,0,0,0,0>>

\* a Fetch v0 for topic orders
FrameFetch == <<0,0,0,54,0,1,0,0,0,0,0,7,0,0,255,255,255,255,0,0,0,100,0,0,0,1,0,0,0,1,0,6,111,114,100,101,114,115,0,0,0,1,0,0,0,0,0,0,0,0,0,0,0,0,0,0,4,0>>

\* a ListOffsets v0 for topic logs
FrameListOffsets == <<0,0,0,44,0,2,0,0,0,0,0,7,0,0,255,255,255,255,0,0,0,1,0,4,108,111,103,115,0,0,0,1,0,0,0,0,255,255,255,255,255,255,255,255,0,0,0,1>>

\* a SaslAuthenticate v0 with the PLAIN token 00 alice 00 pw
FrameSaslAuthenticate == <<0,0,0,23,0,36,0,0,0,0,0,7,0,0,0,0,0,9,0,97,108,105,99,101,0,112,119>>

\* a SaslHandshake v0 for mechanism PLAIN
FrameSaslHandshake == <<0,0,0,17,0,17,0,0,0,0,0,7,0,0,0,5,80,76,65,73,78>>

\* a Metadata v0 for topic orders
FrameMetadata == <<0,0,0,22,0,3,0,0,0,0,0,7,0,0,0,0,0,1,0,6,111,114,100,101,114,115>>

\* a DescribeConfigs v0 whose resource declares 10001 config names
FrameDescribeConfigs == <<0,0,0,21,0,32,0,0,0,0,0,7,0,0,0,0,0,1,2,0,0,0,0,39,17>>

\* a request of api key 19, v0, whose array declares 2147483647 topics
FrameDeleteTopics == <<0,0,0,14,0,19,0,0,0,0,0,7,0,0,127,255,255,255>>

\* a frame of declared size 4: the prefix only
FrameTiny == <<0,0,0,4,0,18,0,0>>

\* a Produce v0 prefix that declares 40 bytes and carries 12
FrameTruncated == <<0,0,0,40,0,0,0,0,0,0,0,7,0,0,0,1,0,0,0,100>>

FrameLibrary ==
    {FrameProduce,
     FrameFetch,
     FrameListOffsets,
     FrameSaslAuthenticate,
     FrameSaslHandshake,
     FrameMetadata,
     FrameDescribeConfigs,
     FrameDeleteTopics,
     FrameTiny,
     FrameTruncated}

MaxFrames == 2

NoIteration ==
    [outcome |-> "none", avail |-> 0, used |-> 0, size |-> 0, key |-> 0, type |-> "none",
     topics |-> {}, Username |-> EmptyStr, complete |-> FALSE]

\* main hands the storage to package metrics before any flow exists, or never
SetDefaultStorage ==
    /\ ~defaultStorage
    /\ ~crashed
    /\ \A f \in Flows : streams[f].pc = "init"
    /\ defaultStorage' = TRUE
    /\ UNCHANGED <<metricVars, authVars, frameVars, lockVars, saslVars, probeVars, streamVars, clientProducerTopics,
                   clientConsumerTopics, userClientMapping, clientUserMap,
                   ProducerUserTopicInfo, ConsumerUserTopicInfo, AuthUserActivity,
                   AuthenticationInfo, RequestsCount, BlocksRequested>>

\* KafkaStreamFactory.New and the start of run, up to the loop
RunStart(f) ==
    /\ ~crashed
    /\ streams[f].pc = "init"
    /\ streams' = [streams EXCEPT ![f] = [@ EXCEPT !.pc = "loop", !.clientAddress = FlowSrc[f]]]
    /\ Commit(AddActiveConnectionsTotal(World, FlowSrc[f]))
    /\ UNCHANGED <<expPc, expLabels, callers, callsLeft, lastObserved, clock,
                   ipIdle, established, lastLookup, lastOp, lastRead, authOpsLeft, frameVars, lockVars, saslVars, probeVars,
                   wire, closed, crashed, framesLeft, lastIter, events>>

\* the assembler hands the bytes of one more frame to the flow's reader
Deliver(f, bytes) ==
    /\ ~crashed
    /\ streams[f].pc = "loop"
    /\ ~closed[f]
    /\ framesLeft > 0
    /\ framesLeft' = framesLeft - 1
    /\ wire' = [wire EXCEPT ![f] = @ \o bytes]
    /\ UNCHANGED <<metricVars, authVars, frameVars, lockVars, saslVars, probeVars, storageVars, streams, closed, crashed,
                   lastIter, events>>

\* the assembler closes the flow's reader
Close(f) ==
    /\ ~crashed
    /\ streams[f].pc = "loop"
    /\ ~closed[f]
    /\ closed' = [closed EXCEPT ![f] = TRUE]
    /\ UNCHANGED <<metricVars, authVars, frameVars, lockVars, saslVars, probeVars, storageVars, streams, wire, crashed,
                   framesLeft, lastIter, events>>

\* the Produce and Fetch cases so far, and what an authentication on another
\* flow of the same host owes them
EventsAfter(f, r) ==
    LET src == FlowSrc[f]
        kind == r.req.body.type
    IN IF r.outcome # "processed" THEN events
       ELSE IF kind \in {"Produce", "Fetch"}
       THEN [events EXCEPT !.seen = @ \cup {[flow |-> f, ip |-> src, kind |-> kind, topic |-> t] :
                                            t \in r.req.body.topics}]
       ELSE IF kind = "SaslAuthenticate" /\ r.req.body.Username # EmptyStr
       THEN [events EXCEPT !.due = @ \cup {[ip |-> src, user |-> r.req.body.Username,
                                           kind |-> e.kind, topic |-> e.topic] :
                                           e \in {x \in events.seen : x.flow # f /\ x.ip = src}}]
       ELSE events

\* The decoders of these api keys size a slice by a count read off the wire;
\* for the other keys the host's answer is never asked.
MakingKeys == {1, 8, 19, 32}

HostChoices(bytes) ==
    IF Len(bytes) >= NeedReadBytes /\ SignedBigEndian(SubSeq(bytes, 5, 6)) \in MakingKeys
    THEN BOOLEAN ELSE {TRUE}

\* What the bufio.Reader holds past a handshake when tryExtractAuthData peeks:
\* nothing, or all that has arrived (cut to its bounds in Iterate).
PeekChoices(bytes) ==
    IF Len(bytes) >= NeedReadBytes /\ SignedBigEndian(SubSeq(bytes, 5, 6)) = 17
    THEN {0, Min(Len(bytes), 1024)} ELSE {0}

\* what one iteration with result r leaves behind on flow f
Advance(f, r) ==
    /\ r.outcome # "block"
    /\ streams' = [streams EXCEPT ![f] =
                      [r.s EXCEPT !.pc = IF r.outcome \in {"returned", "crashed"}
                                         THEN r.outcome ELSE "loop"]]
    /\ Commit(r.w)
    /\ wire' = [wire EXCEPT ![f] = SubSeq(@, r.used + 1, Len(@))]
    /\ crashed' = (r.outcome = "crashed")
    /\ lastIter' = [lastIter EXCEPT ![f] =
                       [outcome |-> r.outcome, avail |-> Len(wire[f]), used |-> r.used,
                        size |-> r.req.size, key |-> r.req.key,
                        type |-> r.req.body.type, topics |-> r.req.body.topics,
                        Username |-> r.req.body.Username,
                        complete |-> r.req.outcome = "read"]]
    /\ events' = EventsAfter(f, r)

RunIteration(f) ==
    /\ ~crashed
    /\ streams[f].pc = "loop"
    /\ \E hostGrants \in HostChoices(wire[f]), buffered \in PeekChoices(wire[f]) :
         Advance(f, Iterate(streams[f], World, FlowSrc[f], wire[f], closed[f],
                            hostGrants, buffered))
    /\ UNCHANGED <<expPc, expLabels, callers, callsLeft, lastObserved, clock,
                   ipIdle, established, lastLookup, lastOp, lastRead, authOpsLeft, frameVars, lockVars, saslVars, probeVars,
                   closed, framesLeft>>

StreamNext ==
    \/ SetDefaultStorage
    \/ \E f \in Flows : RunStart(f)
    \/ \E f \in Flows, b \in FrameLibrary : Deliver(f, b)
    \/ \E f \in Flows : Close(f)
    \/ \E f \in Flows : RunIteration(f)

(***************************************************************************)
(* SaslAuthenticate requests over every short token: a flow receives one   *)
(* complete SaslAuthenticate v0 frame whose auth bytes are the token, and   *)
(* run decodes it and executes its SaslAuthenticateRequest case.            *)
(***************************************************************************)
MaxTokenLen == 4

MaxTokens == 1

\* 0x00, 'a' and 'p'
SaslAlphabet == {0, 97, 112}

SaslTokens == UNION {[1..n -> SaslAlphabet] : n \in 0..MaxTokenLen}

\* size, api key 36, version 0, correlation id 7, an empty client id, then
\* the auth bytes behind their int32 length
SaslFrame(token) ==
    <<0,0,0,14 + Len(token),0,36,0,0,0,0,0,7,0,0,0,0,0,Len(token)>> \o token

NoToken ==
    [left |-> MaxTokens, stage |-> "idle", flow |-> "", token |-> EmptyStr,
     body |-> EmptyBody("none")]

\* the assembler hands the flow's reader a SaslAuthenticate request
SaslDeliver(f, token) ==
    /\ ~crashed
    /\ streams[f].pc = "loop"
    /\ ~closed[f]
    /\ sasl.left > 0
    /\ sasl.stage # "offered"
    /\ \A g \in Flows : wire[g] = << >>
    /\ wire' = [wire EXCEPT ![f] = SaslFrame(token)]
    /\ sasl' = [left |-> sasl.left - 1, stage |-> "offered", flow |-> f, token |-> token,
                body |-> EmptyBody("none")]
    /\ UNCHANGED <<metricVars, authVars, frameVars, lockVars, probeVars, storageVars, streams, closed,
                   crashed, framesLeft, lastIter, events>>

\* the loop iteration of run that reads the request; body is what Decode made
SaslIteration(f) ==
    /\ ~crashed
    /\ streams[f].pc = "loop"
    /\ sasl.stage = "offered"
    /\ sasl.flow = f
    /\ LET r == Iterate(streams[f], World, FlowSrc[f], wire[f], closed[f], TRUE, 0)
       IN /\ Advance(f, r)
          /\ sasl' = [sasl EXCEPT !.stage = "handled", !.body = r.req.body]
    /\ UNCHANGED <<expPc, expLabels, callers, callsLeft, lastObserved, clock,
                   ipIdle, established, lastLookup, lastOp, lastRead, authOpsLeft, frameVars,
                   lockVars, probeVars, closed, framesLeft>>

SaslNext ==
    \/ SetDefaultStorage
    \/ \E f \in Flows : RunStart(f)
    \/ \E f \in Flows, token \in SaslTokens : SaslDeliver(f, token)
    \/ \E f \in Flows : SaslIteration(f)

(***************************************************************************)
(* Raw SASL tokens: after a SaslHandshake a flow receives a token behind a *)
(* 4-byte length, with no request header.                                   *)
(***************************************************************************)
\* "user1" and "USER12345678"
RawUsers == {<<117,115,101,114,49>>, <<85,83,69,82,49,50,51,52,53,54,55,56>>}

\* "pass1" and "PASSWORD1234"
RawPasswords == {<<112,97,115,115,49>>, <<80,65,83,83,87,79,82,68,49,50,51,52>>}

\* [0x00][username][0x00][password]
RawTokens == {<<0>> \o u \o <<0>> \o p : u \in RawUsers, p \in RawPasswords}

\* the token behind its big-endian length
RawFrame(token) == <<0,0,0,Len(token)>> \o token

\* the assembler hands the flow's reader a raw token
RawDeliver(f, token) ==
    /\ ~crashed
    /\ streams[f].pc = "loop"
    /\ ~closed[f]
    /\ sasl.left > 0
    /\ sasl.stage # "offered"
    /\ \A g \in Flows : wire[g] = << >>
    /\ wire' = [wire EXCEPT ![f] = RawFrame(token)]
    /\ sasl' = [left |-> sasl.left - 1, stage |-> "offered", flow |-> f, token |-> token,
                body |-> EmptyBody("none")]
    /\ UNCHANGED <<metricVars, authVars, frameVars, lockVars, probeVars, storageVars, streams, closed,
                   crashed, framesLeft, lastIter, events>>

RawNext ==
    \/ SetDefaultStorage
    \/ \E f \in Flows : RunStart(f)
    \/ \E f \in Flows : Deliver(f, FrameSaslHandshake)
    \/ \E f \in Flows : RunIteration(f)
    \/ \E f \in Flows, token \in RawTokens : RawDeliver(f, token)
    \/ \E f \in Flows : SaslIteration(f)

(***************************************************************************)
(* Flows that carry requests at the boundaries of the decoders.            *)
(***************************************************************************)
\* a Metadata v0 with an empty topic array
FrameMetadataEmpty == <<0,0,0,14,0,3,0,0,0,0,0,7,0,0,0,0,0,0>>

\* a Metadata v0 whose topic array has length -1
FrameMetadataNull == <<0,0,0,14,0,3,0,0,0,0,0,7,0,0,255,255,255,255>>

\* a Fetch v0 that declares two topics and carries one, orders
FrameFetchShort == <<0,0,0,54,0,1,0,0,0,0,0,7,0,0,255,255,255,255,0,0,0,100,0,0,0,1,0,0,0,2,0,6,111,114,100,101,114,115,0,0,0,1,0,0,0,0,0,0,0,0,0,0,0,0,0,0,4,0>>

EdgeLibrary ==
    {FrameMetadataEmpty,
     FrameMetadataNull,
     FrameMetadata,
     FrameFetchShort}

EdgeNext ==
    \/ SetDefaultStorage
    \/ \E f \in Flows : RunStart(f)
    \/ \E f \in Flows, b \in EdgeLibrary : Deliver(f, b)
    \/ \E f \in Flows : Close(f)
    \/ \E f \in Flows : RunIteration(f)

(***************************************************************************)
(* Flows that end: before a frame, inside the 8-byte prefix, inside a body *)
(* or, after a handshake for PLAIN, inside a raw token.                    *)
(***************************************************************************)
\* the first 6 bytes of a Metadata request
FramePrefixCut == <<0,0,0,14,0,3>>

EndLibrary ==
    {FramePrefixCut,
     FrameTruncated,
     FrameSaslHandshake,
     FrameProduce}

EndNext ==
    \/ SetDefaultStorage
    \/ \E f \in Flows : RunStart(f)
    \/ \E f \in Flows, b \in EndLibrary : Deliver(f, b)
    \/ \E f \in Flows : Close(f)
    \/ \E f \in Flows : RunIteration(f)

(***************************************************************************)
(* Locking.  The operations of the stores as the sequence of lock, unlock  *)
(* and mutation steps each one takes, interleaved between goroutines.  A   *)
(* step names the lock or the map it acts on; an "if" step looks the key   *)
(* up in a map and continues with one of two sequences.  Reads and the     *)
(* prometheus vectors (which lock internally) are left out.                *)
(***************************************************************************)
Goroutines == {"g1", "g2"}

Step(kind, obj) == [kind |-> kind, obj |-> obj, yes |-> << >>, no |-> << >>]

IfExists(obj, yes, no) == [kind |-> "if", obj |-> obj, yes |-> yes, no |-> no]

mapMutex == <<"mapMutex", "Storage">>

clientUserMutex == <<"clientUserMutex", "metrics">>

authSessionsLock == <<"authSessionsLock", "kafka">>

Mux(fam) == <<"mux", fam>>

RelationMux(fam) == <<"relation.mux", fam>>

LockNames ==
    {mapMutex, clientUserMutex, authSessionsLock}
        \cup {Mux(f) : f \in Families} \cup {RelationMux(f) : f \in Families}

\* the maps whose entry an operation looks up before it decides what to do
MapNames ==
    {<<"userClientMapping", "Storage">>, <<"clientUserMap", "metrics">>,
     <<"authSessions", "kafka">>} \cup {<<"relations", f>> : f \in Families}

\* the lock each shared object is declared to be protected by
GuardOf(obj) ==
    CASE obj[1] = "relations" -> Mux(obj[2])
      [] obj[1] = "timer" -> RelationMux(obj[2])
      [] obj[1] \in {"userClientMapping", "clientProducerTopics", "clientConsumerTopics"} -> mapMutex
      [] obj[1] \in {"clientUserMap", "lastSeen"} -> clientUserMutex
      [] OTHER -> authSessionsLock

\* relation.refresh
refreshSteps(fam) ==
    <<Step("Lock", RelationMux(fam)), Step("Write", <<"timer", fam>>),
      Step("Unlock", RelationMux(fam))>>

\* metric.update, and with it metric.set and metric.inc
updateSteps(fam) ==
    <<Step("Lock", Mux(fam)),
      IfExists(<<"relations", fam>>, refreshSteps(fam), <<Step("Write", <<"relations", fam>>)>>),
      Step("Unlock", Mux(fam))>>

\* one round of metric.runExpiration, once a relation has sent its labels
runExpirationSteps(fam) ==
    <<Step("Lock", Mux(fam)), Step("Delete", <<"relations", fam>>), Step("Unlock", Mux(fam))>>

\* Storage.AddProducerTopicRelationInfo
StorageAddProducerSteps ==
    updateSteps("producer")
        \o <<Step("Lock", mapMutex), Step("Write", <<"clientProducerTopics", "Storage">>),
             Step("Unlock", mapMutex)>>

\* Storage.AddConsumerTopicRelationInfo
StorageAddConsumerSteps ==
    updateSteps("consumer")
        \o <<Step("Lock", mapMutex), Step("Write", <<"clientConsumerTopics", "Storage">>),
             Step("Unlock", mapMutex)>>

\* Storage.AddUserClientMapping
AddUserClientMappingSteps ==
    <<Step("Lock", mapMutex), Step("Write", <<"userClientMapping", "Storage">>),
      Step("Unlock", mapMutex)>>

\* Storage.GetUsernameForClient
GetUsernameForClientSteps ==
    <<Step("RLock", mapMutex),
      IfExists(<<"userClientMapping", "Storage">>,
               <<Step("Write", <<"userClientMapping", "Storage">>)>>, << >>),
      Step("RUnlock", mapMutex)>>

\* Storage.GetClientProducerTopics, Storage.GetClientConsumerTopics
GetClientTopicsSteps == <<Step("RLock", mapMutex), Step("RUnlock", mapMutex)>>

\* setClientUser
setClientUserSteps ==
    <<Step("Lock", clientUserMutex), Step("Write", <<"clientUserMap", "metrics">>),
      Step("Unlock", clientUserMutex)>>

\* getClientUser
getClientUserSteps ==
    <<Step("RLock", clientUserMutex),
      IfExists(<<"clientUserMap", "metrics">>, <<Step("Write", <<"lastSeen", "metrics">>)>>, << >>),
      Step("RUnlock", clientUserMutex)>>

\* the package-level AddProducerTopicRelationInfo with a default storage set
AddProducerTopicRelationInfoSteps == StorageAddProducerSteps \o getClientUserSteps

\* the package-level AddConsumerTopicRelationInfo with a default storage set
AddConsumerTopicRelationInfoSteps == StorageAddConsumerSteps \o getClientUserSteps

\* TrackSaslAuthentication with a mechanism, a username and a default storage
TrackSaslAuthenticationSteps ==
    setClientUserSteps \o GetClientTopicsSteps \o GetClientTopicsSteps \o updateSteps("active")

\* StoreAuthHandshake (with cleanupOldSessions)
StoreAuthHandshakeSteps ==
    <<Step("Lock", authSessionsLock), Step("Write", <<"authSessions", "kafka">>),
      Step("Unlock", authSessionsLock)>>

\* UpdateAuthSession
UpdateAuthSessionSteps ==
    <<Step("Lock", authSessionsLock),
      IfExists(<<"authSessions", "kafka">>, <<Step("Write", <<"authSessions", "kafka">>)>>, << >>),
      Step("Write", <<"ipToUsername", "kafka">>), Step("Unlock", authSessionsLock)>>

\* GetAuthSession, GetUsernameByIP
AuthLookupSteps == <<Step("RLock", authSessionsLock), Step("RUnlock", authSessionsLock)>>

\* what a goroutine may call
Operations ==
    [set |-> updateSteps("producer"),
     inc |-> updateSteps("active"),
     runExpiration |-> runExpirationSteps("producer"),
     relationRun |-> refreshSteps("producer"),
     AddProducerTopicRelationInfo |-> AddProducerTopicRelationInfoSteps,
     AddConsumerTopicRelationInfo |-> AddConsumerTopicRelationInfoSteps,
     AddUserClientMapping |-> AddUserClientMappingSteps,
     GetUsernameForClient |-> GetUsernameForClientSteps,
     TrackSaslAuthentication |-> TrackSaslAuthenticationSteps,
     StoreAuthHandshake |-> StoreAuthHandshakeSteps,
     UpdateAuthSession |-> UpdateAuthSessionSteps,
     GetAuthSession |-> AuthLookupSteps]

\* the background goroutines run only for a relation that exists
Callable(op) ==
    op \in {"runExpiration", "relationRun"} => hasEntry[<<"relations", "producer">>]

Idle == [op |-> "idle", todo |-> << >>]

Free == [writer |-> "none", readers |-> {}]

\* the locks g holds, each with the mode it holds it in
HeldBy(g) ==
    {<<l, "exclusive">> : l \in {x \in LockNames : locks[x].writer = g}}
        \cup {<<l, "shared">> : l \in {x \in LockNames : g \in locks[x].readers}}

NextStep(g) == Head(tasks[g].todo)

AtStep(g, kind) == tasks[g].todo # << >> /\ NextStep(g).kind = kind

Done(g) ==
    tasks' = [tasks EXCEPT ![g] = IF Len(@.todo) = 1 THEN Idle
                                   ELSE [@ EXCEPT !.todo = Tail(@)]]

Call(g, op) ==
    /\ tasks[g] = Idle
    /\ Callable(op)
    /\ tasks' = [tasks EXCEPT ![g] = [op |-> op, todo |-> Operations[op]]]
    /\ UNCHANGED <<locks, hasEntry>>

Lock(g) ==
    /\ AtStep(g, "Lock")
    /\ locks[NextStep(g).obj] = Free
    /\ locks' = [locks EXCEPT ![NextStep(g).obj].writer = g]
    /\ Done(g)
    /\ UNCHANGED hasEntry

Unlock(g) ==
    /\ AtStep(g, "Unlock")
    /\ locks' = [locks EXCEPT ![NextStep(g).obj].writer = "none"]
    /\ Done(g)
    /\ UNCHANGED hasEntry

RLock(g) ==
    /\ AtStep(g, "RLock")
    /\ locks[NextStep(g).obj].writer = "none"
    /\ locks' = [locks EXCEPT ![NextStep(g).obj].readers = @ \cup {g}]
    /\ Done(g)
    /\ UNCHANGED hasEntry

RUnlock(g) ==
    /\ AtStep(g, "RUnlock")
    /\ locks' = [locks EXCEPT ![NextStep(g).obj].readers = @ \ {g}]
    /\ Done(g)
    /\ UNCHANGED hasEntry

Write(g) ==
    /\ AtStep(g, "Write")
    /\ hasEntry' = IF NextStep(g).obj \in MapNames
                    THEN [hasEntry EXCEPT ![NextStep(g).obj] = TRUE] ELSE hasEntry
    /\ Done(g)
    /\ UNCHANGED locks

Delete(g) ==
    /\ AtStep(g, "Delete")
    /\ hasEntry' = [hasEntry EXCEPT ![NextStep(g).obj] = FALSE]
    /\ Done(g)
    /\ UNCHANGED locks

Branch(g) ==
    /\ AtStep(g, "if")
    /\ tasks' = [tasks EXCEPT ![g].todo =
                     (IF hasEntry[NextStep(g).obj] THEN NextStep(g).yes ELSE NextStep(g).no)
                         \o Tail(@)]
    /\ UNCHANGED <<locks, hasEntry>>

LockNext ==
    \/ \E g \in Goroutines, op \in DOMAIN Operations : Call(g, op) /\ UNCHANGED notLock
    \/ \E g \in Goroutines : Lock(g) /\ UNCHANGED notLock
    \/ \E g \in Goroutines : Unlock(g) /\ UNCHANGED notLock
    \/ \E g \in Goroutines : RLock(g) /\ UNCHANGED notLock
    \/ \E g \in Goroutines : RUnlock(g) /\ UNCHANGED notLock
    \/ \E g \in Goroutines : Write(g) /\ UNCHANGED notLock
    \/ \E g \in Goroutines : Delete(g) /\ UNCHANGED notLock
    \/ \E g \in Goroutines : Branch(g) /\ UNCHANGED notLock

(***************************************************************************)
(* extractBaseIP applied to client addresses                               *)
(***************************************************************************)
IP3 == <<49,57,50,46,49,54,56,46,49,46,49,48>>             \* "192.168.1.10"

\* bare IPv6 hosts; the last two are IPv4-mapped, one written with dots
Loopback6 == <<58,58,49>>                           \* "::1"

LinkLocal6 == <<102,101,56,48,58,58,49>>           \* "fe80::1"

Global6 == <<50,48,48,49,58,100,98,56,58,58,49>>      \* "2001:db8::1"

Mapped6Dotted == <<58,58,102,102,102,102,58,49,48,46,48,46,48,46,49>>   \* "::ffff:10.0.0.1"

Mapped6Hex == <<58,58,102,102,102,102,58,97,48,48,58,49>>      \* "::ffff:a00:1"

Hosts4 == {IP1, IP2, IP3}

Hosts6 == {Loopback6, LinkLocal6, Global6, Mapped6Dotted, Mapped6Hex}

Ports == {<<57,48,57,50>>, <<53,48,48,48>>, <<56,48>>, <<48>>}   \* "9092", "5000", "80", "0"

\* host:port
WithPort(host, port) == host \o <<Colon>> \o port

\* [host]:port
Bracketed(host, port) == <<LBracket>> \o host \o <<RBracket, Colon>> \o port

\* the addresses a client can be known by, each with the host it names
Addresses ==
    {[addr |-> h, host |-> h] : h \in Hosts4 \cup Hosts6}
    \cup {[addr |-> WithPort(h, p), host |-> h] : h \in Hosts4, p \in Ports}
    \cup {[addr |-> Bracketed(h, p), host |-> h] : h \in Hosts6, p \in Ports}

NoProbe ==
    [stage |-> "idle", addr |-> EmptyStr, host |-> EmptyStr, once |-> EmptyStr, twice |-> EmptyStr,
     key |-> 0, type |-> "", ApiName |-> "", label |-> "",
     version |-> 0, names |-> << >>, raw |-> << >>, failed |-> FALSE, left |-> 0, topics |-> {},
     routine |-> "", username |-> EmptyStr, bodyKey |-> 0]

\* an address reaches a caller of extractBaseIP
BaseOffer(a) ==
    /\ probe' = [NoProbe EXCEPT !.stage = "offered", !.addr = a.addr, !.host = a.host]
    /\ UNCHANGED notProbe

\* extractBaseIP(addr)
BaseApply ==
    /\ probe.stage = "offered"
    /\ probe' = [probe EXCEPT !.stage = "once", !.once = extractBaseIP(probe.addr)]
    /\ UNCHANGED notProbe

\* extractBaseIP of what extractBaseIP returned
BaseAgain ==
    /\ probe.stage = "once"
    /\ probe' = [probe EXCEPT !.stage = "twice", !.twice = extractBaseIP(probe.once)]
    /\ UNCHANGED notProbe

BaseNext ==
    \/ \E a \in Addresses : BaseOffer(a)
    \/ BaseApply
    \/ BaseAgain

(***************************************************************************)
(* The two names of an api key: allocateBody's and getApiName's            *)
(***************************************************************************)
MaxKey == 90

ApiKeys == 0..MaxKey

\* fmt.Sprintf("Unknown(%d)", key)
UnknownName(key) == "Unknown(" \o ToString(key) \o ")"

\* a request with this api key arrives
KeyOffer(key) ==
    /\ probe' = [NoProbe EXCEPT !.stage = "keyed", !.key = key]
    /\ UNCHANGED notProbe

\* the key() method of each request type; GenericRequest returns the ApiKey
\* it was allocated with.  ProduceRequest's method is outside the sources
\* at hand and is taken as the Produce key 0.
RequestKey ==
    ("Produce" :> 0) @@ ("Fetch" :> 1) @@ ("ListOffsets" :> 2) @@ ("Metadata" :> 3) @@
    ("DescribeGroups" :> 8) @@ ("FindCoordinator" :> 10) @@ ("SaslHandshake" :> 17) @@
    ("ApiVersions" :> 18) @@ ("CreateTopics" :> 19) @@ ("DeleteTopics" :> 20) @@
    ("DescribeConfigs" :> 32) @@ ("SaslAuthenticate" :> 36)

BodyKeyOf(body, ApiKey) ==
    IF body.type = "Generic" THEN ApiKey ELSE RequestKey[body.type]

\* Request.Decode allocates the body of the key and logRequestHeaderDetails
\* asks getApiName for its request_type label; bodyKey is r.Body.key()
KeyName ==
    /\ probe.stage = "keyed"
    /\ LET body == allocateBody(probe.key, 0)
       IN probe' = [probe EXCEPT !.stage = "named", !.type = body.type, !.ApiName = body.ApiName,
                                 !.label = getApiName(probe.key),
                                 !.bodyKey = BodyKeyOf(body, probe.key)]
    /\ UNCHANGED notProbe

KeyNext ==
    \/ \E key \in ApiKeys : KeyOffer(key)
    \/ KeyName

(***************************************************************************)
(* Well-formed bodies handed to the structured decoders                    *)
(***************************************************************************)
Zeros(n) == [i \in 1..n |-> 0]

\* the encodings the decoder reads back: int32, string, array of strings
PutInt32(n) == <<0, 0, 0, n>>

PutString(str) == <<0, Len(str)>> \o str

RECURSIVE PutStrings(_)
PutStrings(names) ==
    IF names = << >> THEN << >> ELSE PutString(Head(names)) \o PutStrings(Tail(names))

Optional(present, bytes) == IF present THEN bytes ELSE << >>

\* one partition of a Fetch topic: partition, current_leader_epoch (v9),
\* fetch_offset, log_start_offset (v5), partition_max_bytes
PutFetchPartition(version) ==
    PutInt32(0) \o Optional(version >= 9, Zeros(4)) \o Zeros(8) \o Optional(version >= 5, Zeros(8))
        \o PutInt32(1)

RECURSIVE PutFetchTopics(_, _)
PutFetchTopics(names, version) ==
    IF names = << >> THEN << >>
    ELSE PutString(Head(names)) \o PutInt32(1) \o PutFetchPartition(version)
             \o PutFetchTopics(Tail(names), version)

\* replica_id, max_wait, min_bytes, max_bytes (v3), isolation_level (v4),
\* session_id and epoch (v7), topics, forgotten topics (v7), rack_id (v11)
FetchBody(version, names) ==
    Zeros(12) \o Optional(version >= 3, Zeros(4)) \o Optional(version >= 4, <<0>>)
        \o Optional(version >= 7, Zeros(8))
        \o PutInt32(Len(names)) \o PutFetchTopics(names, version)
        \o Optional(version >= 7, PutInt32(0))
        \o Optional(version >= 11, PutString(EmptyStr))

\* topics, allow_auto_topic_creation (v4), the two include_..._operations (v8)
MetadataBody(version, names) ==
    PutInt32(Len(names)) \o PutStrings(names) \o Optional(version >= 4, <<1>>)
        \o Optional(version >= 8, <<0, 0>>)

\* topics, timeout
DeleteTopicsBody(version, names) ==
    PutInt32(Len(names)) \o PutStrings(names) \o PutInt32(100)

TopicLists == {<< >>, <<TopicOrders>>, <<TopicOrders, TopicLogs>>}

MaxFetchVersion == 11

MaxMetadataVersion == 8

MaxDeleteTopicsVersion == 3

WellFormedBodies ==
    {[key |-> 1, version |-> v, names |-> ns, raw |-> FetchBody(v, ns)] :
        v \in 0..MaxFetchVersion, ns \in TopicLists}
    \cup {[key |-> 3, version |-> v, names |-> ns, raw |-> MetadataBody(v, ns)] :
        v \in 0..MaxMetadataVersion, ns \in TopicLists}
    \cup {[key |-> 19, version |-> v, names |-> ns, raw |-> DeleteTopicsBody(v, ns)] :
        v \in 0..MaxDeleteTopicsVersion, ns \in TopicLists}

\* a request body arrives behind its header
BodyOffer(b) ==
    /\ probe' = [NoProbe EXCEPT !.stage = "body", !.key = b.key, !.version = b.version,
                                !.names = b.names, !.raw = b.raw]
    /\ UNCHANGED notProbe

\* r.Body.Decode(pd, r.Version) of Request.Decode, on a decoder over the body
BodyDecoded ==
    /\ probe.stage = "body"
    /\ LET alloc == allocateBody(probe.key, probe.version)
           d == BodyDecode(alloc, NewDecoder(probe.raw, TRUE), probe.version)
       IN probe' = [probe EXCEPT !.stage = "decoded", !.type = alloc.type,
                                 !.failed = Failed(d.pd), !.left = remaining(d.pd),
                                 !.topics = d.body.topics]
    /\ UNCHANGED notProbe

BodyNext ==
    \/ \E b \in WellFormedBodies : BodyOffer(b)
    \/ BodyDecoded

(***************************************************************************)
(* Topic requests of a flow while other flows of its host authenticate     *)
(***************************************************************************)
TopicLibrary == {FrameProduce, FrameFetch, FrameListOffsets}

\* UpdateAuthSession is what the SaslAuthenticate case of another flow of the
\* host calls with that flow's address and the user it extracted
IdentityNext ==
    \/ SetDefaultStorage
    \/ \E f \in Flows : RunStart(f)
    \/ \E f \in Flows, b \in TopicLibrary : Deliver(f, b)
    \/ \E f \in Flows : RunIteration(f)
    \/ \E a \in Endpoints, u \in Usernames : UpdateAuthSession(a, u) /\ UNCHANGED notAuth

(***************************************************************************)
(* The username extraction routines applied to tokens                      *)
(***************************************************************************)
TokenPlain == <<0,97,108,105,99,101,0,112,119>>          \* \0 alice \0 pw

TokenScram == <<110,44,44,110,61,97,108,105,99,101,44,114,61,97,98,99>>   \* n,,n=alice,r=abc

TokenJwt == <<101,51,48,46,101,121,74,122,100,87,73,105,79,105,74,105,98,50,73,105,102,81,46,115,105,103>>   \* e30.<base64url of {"sub":"bob"}>.sig

TokenJson == <<123,34,115,117,98,34,58,34,99,97,114,111,108,34,125>>   \* {"sub":"carol"}

TokenBinary == <<1,2,97,108,105,99,101,3>>          \* 01 02 alice 03

TokenConsole == <<0,99,111,110,115,111,108,101,45,112,114,111,100,117,99,101,114,0,115,101,99,114,101,116>>   \* \0 console-producer \0 secret

TokenConsoleUpper == <<0,99,111,110,115,111,108,101,45,112,114,111,100,117,99,101,114,0,85,83,69,82,49,50,51,52,65>>   \* \0 console-producer \0 USER1234A

TokenShort == <<0, 97>>

ExtractionTokens ==
    {TokenPlain, TokenScram, TokenJwt, TokenJson, TokenBinary, TokenConsole, TokenConsoleUpper,
     TokenShort, EmptyStr} \cup RawTokens

ExtractionRoutines ==
    {"tryDecodePlainAuth", "extractSaslPlainUsername", "extractPlainUsername",
     "extractScramUsername", "extractGenericUsername"}

\* the username a routine returns for a token, empty if it returns none
Extracted(routine, token) ==
    CASE routine = "tryDecodePlainAuth" ->
             LET r == tryDecodePlainAuth(token) IN IF r.found THEN r.Username ELSE EmptyStr
      [] routine = "extractSaslPlainUsername" ->
             LET r == extractSaslPlainUsername(token) IN IF r.ok THEN r.username ELSE EmptyStr
      [] routine = "extractPlainUsername" -> extractPlainUsername(token)
      [] routine = "extractScramUsername" -> extractScramUsername(token)
      [] OTHER -> extractGenericUsername(token)

\* the decoded middle part of a token of three dot-separated parts
JwtPayload(a) ==
    LET d1 == IndexOfAny(a, 0, {Dot})
        dec == B64Decode(Slice(a, d1 + 1, IndexOfAny(a, d1 + 1, {Dot})))
    IN IF CountByte(a, Dot) = 2 /\ dec[1] THEN dec[2] ELSE EmptyStr

\* a token reaches one of the routines
TokenOffer(routine, token) ==
    /\ probe' = [NoProbe EXCEPT !.stage = "token", !.routine = routine, !.raw = token]
    /\ UNCHANGED notProbe

\* the routine returns
TokenExtract ==
    /\ probe.stage = "token"
    /\ probe' = [probe EXCEPT !.stage = "extracted", !.username = Extracted(probe.routine, probe.raw)]
    /\ UNCHANGED notProbe

ExtractNext ==
    \/ \E routine \in ExtractionRoutines, token \in ExtractionTokens : TokenOffer(routine, token)
    \/ TokenExtract

(***************************************************************************)
(* Several tuples of one gauge family, so that their relations can expire  *)
(* at once                                                                 *)
(***************************************************************************)
CrowdObservations ==
    { [fam |-> "producer", labels |-> <<IP1, TopicOrders>>, op |-> "set"],
      [fam |-> "producer", labels |-> <<IP1, TopicLogs>>, op |-> "set"],
      [fam |-> "active", labels |-> <<IP1>>, op |-> "inc"] }

CrowdNext ==
    \/ \E c \in Callers, o \in CrowdObservations : SetGauge(c, o)
    \/ \E c \in Callers, o \in CrowdObservations : IncGauge(c, o)
    \/ \E c \in Callers : Update(c)
    \/ \E i \in DOMAIN rels : RelationStart(i)
    \/ \E i \in DOMAIN rels : RelationTimerFired(i)
    \/ \E f \in Families, i \in DOMAIN rels : ExpReceive(f, i)
    \/ \E f \in Families : ExpDeleteLabelValues(f)
    \/ \E f \in Families : ExpDeleteRelation(f)
    \/ MetricTick

(***************************************************************************)
(* The AuthSession objects the correlator hands out                        *)
(***************************************************************************)
\* the Username and Mechanism fields of the *AuthSession stored in authSessions
SessionFields == <<"AuthSession", "kafka">>

\* UpdateAuthSession, with the assignment session.Username = username
UpdateSessionSteps ==
    <<Step("Lock", authSessionsLock),
      IfExists(<<"authSessions", "kafka">>, <<Step("Write", SessionFields)>>, << >>),
      Step("Write", <<"ipToUsername", "kafka">>), Step("Unlock", authSessionsLock)>>

\* the lookup of the Produce and Fetch cases of run: GetAuthSession returns
\* the stored pointer for an exact match and has released the lock when the
\* caller reads session.Username and session.Mechanism
SessionReadSteps ==
    <<Step("RLock", authSessionsLock),
      IfExists(<<"authSessions", "kafka">>,
               <<Step("RUnlock", authSessionsLock), Step("Read", SessionFields)>>,
               <<Step("RUnlock", authSessionsLock)>>)>>

RaceOperations ==
    [StoreAuthHandshake |-> StoreAuthHandshakeSteps,
     UpdateAuthSession |-> UpdateSessionSteps,
     GetAuthSession |-> SessionReadSteps]

RaceCall(g, op) ==
    /\ tasks[g] = Idle
    /\ tasks' = [tasks EXCEPT ![g] = [op |-> op, todo |-> RaceOperations[op]]]
    /\ UNCHANGED <<locks, hasEntry>>

Read(g) ==
    /\ AtStep(g, "Read")
    /\ Done(g)
    /\ UNCHANGED <<locks, hasEntry>>

RaceNext ==
    \/ \E g \in Goroutines, op \in DOMAIN RaceOperations : RaceCall(g, op) /\ UNCHANGED notLock
    \/ \E g \in Goroutines : Lock(g) /\ UNCHANGED notLock
    \/ \E g \in Goroutines : Unlock(g) /\ UNCHANGED notLock
    \/ \E g \in Goroutines : RLock(g) /\ UNCHANGED notLock
    \/ \E g \in Goroutines : RUnlock(g) /\ UNCHANGED notLock
    \/ \E g \in Goroutines : Write(g) /\ UNCHANGED notLock
    \/ \E g \in Goroutines : Read(g) /\ UNCHANGED notLock
    \/ \E g \in Goroutines : Branch(g) /\ UNCHANGED notLock

\* InitializeMetrics: the vectors start with one series of value 0
InitializeMetrics == MapPut(EmptyMap, <<<<105,110,105,116>>, <<105,110,105,116>>, <<105,110,105,116>>>>, 0)

Init ==
    /\ gauge = [f \in Families |-> EmptyMap]
    /\ relations = [f \in Families |-> EmptyMap]
    /\ rels = << >>
    /\ expPc = [f \in Families |-> "recv"]
    /\ expLabels = [f \in Families |-> << >>]
    /\ callers = [c \in Callers |-> [pc |-> "idle", fam |-> "", labels |-> << >>]]
    /\ callsLeft = MaxCalls
    /\ lastObserved = EmptyMap
    /\ clock = 0
    /\ AuthInit
    /\ frame = [size |-> 12, avail |-> 8, ended |-> FALSE, res |-> NoRead]
    /\ clientProducerTopics = EmptyMap
    /\ clientConsumerTopics = EmptyMap
    /\ userClientMapping = EmptyMap
    /\ clientUserMap = EmptyMap
    /\ ProducerUserTopicInfo = InitializeMetrics
    /\ ConsumerUserTopicInfo = InitializeMetrics
    /\ AuthUserActivity = InitializeMetrics
    /\ AuthenticationInfo = EmptyMap
    /\ RequestsCount = EmptyMap
    /\ BlocksRequested = EmptyMap
    /\ defaultStorage = FALSE
    /\ streams = [f \in Flows |-> NewStream]
    /\ wire = [f \in Flows |-> << >>]
    /\ closed = [f \in Flows |-> FALSE]
    /\ crashed = FALSE
    /\ framesLeft = MaxFrames
    /\ lastIter = [f \in Flows |-> NoIteration]
    /\ events = [seen |-> {}, due |-> {}]
    /\ tasks = [g \in Goroutines |-> Idle]
    /\ locks = [l \in LockNames |-> Free]
    /\ hasEntry = [m \in MapNames |-> FALSE]
    /\ sasl = NoToken
    /\ probe = NoProbe

MetricStep ==
    \/ \E c \in Callers, o \in Observations : SetGauge(c, o)
    \/ \E c \in Callers, o \in Observations : IncGauge(c, o)
    \/ \E c \in Callers : Update(c)
    \/ \E i \in DOMAIN rels : RelationStart(i)
    \/ \E i \in DOMAIN rels : RelationTimerFired(i)
    \/ \E f \in Families, i \in DOMAIN rels : ExpReceive(f, i)
    \/ \E f \in Families : ExpDeleteLabelValues(f)
    \/ \E f \in Families : ExpDeleteRelation(f)

MetricNext == MetricStep \/ MetricTick

MetricSpec == Init /\ [][MetricNext]_vars

\* Every goroutine that can take a step eventually takes it, and time passes.
\* Callers are not obliged to start another call.
MetricFairness ==
    /\ \A c \in Callers : WF_vars(Update(c))
    /\ WF_vars(\E i \in DOMAIN rels : RelationStart(i))
    /\ WF_vars(\E i \in DOMAIN rels : RelationTimerFired(i))
    /\ \A f \in Families : WF_vars(\E i \in DOMAIN rels : ExpReceive(f, i))
    /\ \A f \in Families : WF_vars(ExpDeleteLabelValues(f))
    /\ \A f \in Families : WF_vars(ExpDeleteRelation(f))
    /\ WF_vars(MetricTick)

FairMetricSpec == MetricSpec /\ MetricFairness

Next == MetricNext

AuthSpec == Init /\ [][AuthNext]_vars

FrameSpec == Init /\ [][FrameNext]_vars

LockSpec == Init /\ [][LockNext]_vars

SaslSpec == Init /\ [][SaslNext]_vars

RawSpec == Init /\ [][RawNext]_vars

EdgeSpec == Init /\ [][EdgeNext]_vars

EndSpec == Init /\ [][EndNext]_vars

BaseSpec == Init /\ [][BaseNext]_vars

KeySpec == Init /\ [][KeyNext]_vars

BodySpec == Init /\ [][BodyNext]_vars

IdentitySpec == Init /\ [][IdentityNext]_vars

ExtractSpec == Init /\ [][ExtractNext]_vars

RaceSpec == Init /\ [][RaceNext]_vars

CrowdSpec == Init /\ [][CrowdNext]_vars

\* every goroutine of the store that can take its next step takes it
FairCrowdSpec == CrowdSpec /\ MetricFairness

\* RunIteration(f) is enabled: the reader holds what the iteration waits for
CanIterate(f) ==
    /\ ~crashed
    /\ streams[f].pc = "loop"
    /\ \E hostGrants \in HostChoices(wire[f]), buffered \in PeekChoices(wire[f]) :
         Iterate(streams[f], World, FlowSrc[f], wire[f], closed[f], hostGrants,
                 buffered).outcome # "block"

\* weak fairness of RunIteration(f), its enabling condition written out: the
\* goroutine of a flow that can take its next iteration takes it
EndFairness ==
    \A f \in Flows : []<>(~CanIterate(f)) \/ []<><<RunIteration(f)>>_vars

FairEndSpec == EndSpec /\ EndFairness

\* C9: DecodeRequest reads a frame's body exactly when the declared size lies
\* in (4, MaxRequestSize]; for every other size it returns a size error and
\* takes no body byte.
C9_BodyReadIffSizeInBounds ==
    frame.res # NoRead =>
        LET inBounds == 4 < frame.size /\ frame.size <= MaxRequestSize IN
        /\ inBounds <=> frame.res.outcome \in {"body", "shortBody", "block"}
        /\ ~inBounds => (frame.res.outcome \in {"negative", "bounds"} /\ frame.res.bodyRead = 0)

StreamSpec == Init /\ [][StreamNext]_vars

\* the goroutines of the metric store, without callers of its own
MetricBackground ==
    \/ \E i \in DOMAIN rels : RelationStart(i)
    \/ \E i \in DOMAIN rels : RelationTimerFired(i)
    \/ \E f \in Families, i \in DOMAIN rels : ExpReceive(f, i)
    \/ \E f \in Families : ExpDeleteLabelValues(f)
    \/ \E f \in Families : ExpDeleteRelation(f)

\* one call of an operation of the store, from entry to return; w is the state
\* the operation leaves
StorageCall(w) ==
    /\ callsLeft > 0
    /\ callsLeft' = callsLeft - 1
    /\ Commit(w)
    /\ UNCHANGED <<expPc, expLabels, callers, lastObserved, clock,
                   ipIdle, established, lastLookup, lastOp, lastRead, authOpsLeft,
                   frameVars, lockVars, saslVars, probeVars, streamVars>>

\* the operations that record an identity, a produced or a consumed topic
StorageCalls ==
    \/ StorageCall(AddUserClientMapping(World, IP1, Alice, MechPlain))
    \/ StorageCall(TrackSaslAuthentication(World, IP1, MechPlain, Alice))
    \/ StorageCall(StorageAddProducerTopicRelationInfo(World, IP1, TopicOrders))
    \/ StorageCall(StorageAddConsumerTopicRelationInfo(World, IP1, TopicLogs))

\* the store's operations together with the expiration of what they record
ExpiryNext == SetDefaultStorage \/ StorageCalls \/ MetricBackground \/ MetricTick

ExpirySpec == Init /\ [][ExpiryNext]_vars

\* the goroutines of the metric store take the steps they can, and time passes
ExpiryFairness ==
    /\ WF_vars(\E i \in DOMAIN rels : RelationStart(i))
    /\ WF_vars(\E i \in DOMAIN rels : RelationTimerFired(i))
    /\ \A f \in Families : WF_vars(\E i \in DOMAIN rels : ExpReceive(f, i))
    /\ \A f \in Families : WF_vars(ExpDeleteLabelValues(f))
    /\ \A f \in Families : WF_vars(ExpDeleteRelation(f))
    /\ WF_vars(MetricTick)

FairExpirySpec == ExpirySpec /\ ExpiryFairness

Spec == Init /\ [][Next]_vars

(***************************************************************************)
(* C1: every observed label tuple is eventually removed from the relations *)
(* map and from the exposed gauge once no further set/inc of it follows    *)
(* (the callers make finitely many calls).                                 *)
(***************************************************************************)
C1_EventuallyExpired ==
    \A o \in Observations :
        <>[](/\ o.labels \notin DOMAIN gauge[o.fam]
             /\ genLabelKey(o.labels) \notin DOMAIN relations[o.fam])

(***************************************************************************)
(* C2: after a set/inc of a tuple has returned, the tuple stays in the     *)
(* exposed gauge until a full TTL has elapsed since that call.             *)
(***************************************************************************)
C2_PresentForTTL ==
    \A k \in DOMAIN lastObserved :
        lastObserved[k] < TTL => k[2] \in DOMAIN gauge[k[1]]

(***************************************************************************)
(* C3: once UpdateAuthSession(endpoint, u) has returned, a lookup of the   *)
(* endpoint or of any other port of its base ip returns a session whose    *)
(* Username is u, whatever StoreAuthHandshake and lookup calls came in     *)
(* between, as long as no other identity was recorded and the ip TTL has   *)
(* not elapsed.                                                            *)
(***************************************************************************)
C3_LookupReturnsIdentity ==
    (/\ lastLookup.valid
     /\ lastOp = "GetAuthSession"
     /\ extractBaseIP(lastLookup.addr) \in DOMAIN established
     /\ established[extractBaseIP(lastLookup.addr)].age <= IpTTL)
    => (/\ lastLookup.found
        /\ lastLookup.Username = established[extractBaseIP(lastLookup.addr)].user)

(***************************************************************************)
(* C10: the sweep removes the base-ip entries older than the ip TTL as     *)
(* well as the sessions older than the endpoint TTL: after a sweep no      *)
(* session older than 5 minutes and no base-ip entry idle for more than    *)
(* 30 minutes is left, and a lookup of an ip idle for more than the ip     *)
(* TTL returns no identity.                                                *)
(***************************************************************************)
C10_SweepRemovesBoth ==
    /\ lastOp = "StoreAuthHandshake" =>
          /\ \A a \in DOMAIN authSessions : authSessions[a].age <= SessionTTL
          /\ \A b \in DOMAIN ipToUsername : ipIdle[b] <= IpTTL
    /\ (lastLookup.valid /\ lastLookup.idle > IpTTL) => lastLookup.Username = EmptyStr

\* C4: when DecodeRequest rejects a frame for its declared size, run takes
\* exactly that frame off the flow: size + 4 bytes counted from the frame's
\* first byte (all that is left, if the stream ended inside the frame), so
\* that the next read starts at the next frame boundary.
C4_SizeErrorSkipsFrame ==
    \A f \in Flows :
        (lastIter[f].outcome = "sizeError" /\ lastIter[f].size >= 4)
        => lastIter[f].used = Min(lastIter[f].size + 4, lastIter[f].avail)

\* C5: when DecodeRequest has read a complete frame and returns, with success
\* or with a body decode error, the bytes run takes off the flow for that
\* frame equal the frame's declared length (size + 4 with the size field).
C5_CompleteFrameConsumesItsLength ==
    \A f \in Flows :
        (lastIter[f].complete /\ lastIter[f].outcome \in {"processed", "decodeError"})
        => lastIter[f].used = lastIter[f].size + 4

\* C6: run ends only at end-of-stream: the process never dies on a frame, and
\* a run that has returned had a closed stream with nothing left to read.
C6_RunEndsOnlyAtEndOfStream ==
    /\ ~crashed
    /\ \A f \in Flows : streams[f].pc = "returned" => (closed[f] /\ wire[f] = << >>)

\* C7: if a Produce (Fetch) for topic T was processed on one flow of a host and
\* later a SaslAuthenticate with derived username u is processed on another
\* flow of that host, then from the end of that authentication on
\* producer_user_topic_info (consumer_user_topic_info) has (ip, u, T) at 1.
C7_CrossConnectionBackFill ==
    \A d \in events.due :
        LET vec == IF d.kind = "Produce" THEN ProducerUserTopicInfo ELSE ConsumerUserTopicInfo
        IN /\ <<d.ip, d.user, d.topic>> \in DOMAIN vec
           /\ vec[<<d.ip, d.user, d.topic>>] = 1

\* a Produce on one flow, then an authentication on the other, back-filled
C7_BackFillHappened ==
    \E d \in events.due :
        /\ d.kind = "Produce"
        /\ <<d.ip, d.user, d.topic>> \in DOMAIN ProducerUserTopicInfo
        /\ \E f \in Flows : lastIter[f].type = "SaslAuthenticate" /\ lastIter[f].Username = d.user

\* C8: once run has processed a request with a structured decoder, every
\* non-empty topic of its body is in the relation gauges: Produce in the
\* producer gauge, Fetch and ListOffsets in the consumer gauge, Metadata,
\* DescribeConfigs and DeleteTopics in both.
C8_TopicsReachGauges ==
    \A f \in Flows :
        lastIter[f].outcome = "processed" =>
            \A t \in lastIter[f].topics \ {EmptyStr} :
                /\ lastIter[f].type \in {"Produce", "Metadata", "DescribeConfigs", "DeleteTopics"}
                       => <<FlowSrc[f], t>> \in DOMAIN gauge["producer"]
                /\ lastIter[f].type \in {"Fetch", "ListOffsets", "Metadata", "DescribeConfigs",
                                         "DeleteTopics"}
                       => <<FlowSrc[f], t>> \in DOMAIN gauge["consumer"]

(***************************************************************************)
(* C11: GetAuthSession returns the endpoint entry only while that entry is *)
(* fresh (not older than the endpoint TTL); when the endpoint entry is     *)
(* absent or stale it returns the identity stored for the base ip, and     *)
(* when there is neither it returns none.  GetAuthSession changes neither  *)
(* map, so the state after the call still shows what it had to return.     *)
(***************************************************************************)
C11_FreshEndpointElseBaseIP ==
    (lastLookup.valid /\ lastOp = "GetAuthSession") =>
        LET a == lastLookup.addr
            b == extractBaseIP(a)
        IN IF a \in DOMAIN authSessions /\ authSessions[a].age <= SessionTTL
           THEN lastLookup.found
           ELSE IF b \in DOMAIN ipToUsername
                THEN lastLookup.found /\ lastLookup.Username = ipToUsername[b]
                ELSE ~lastLookup.found

(***************************************************************************)
(* C12: a lookup refreshes the entry it reads: an endpoint entry whose     *)
(* identity GetAuthSession returned less than the endpoint TTL ago is      *)
(* still in authSessions, whatever sweeps ran since; a base-ip entry is    *)
(* never removed at all.                                                   *)
(***************************************************************************)
C12_LookupRefreshes ==
    /\ \A a \in DOMAIN lastRead : lastRead[a] < SessionTTL => a \in DOMAIN authSessions
    /\ \A b \in DOMAIN established : b \in DOMAIN ipToUsername

(***************************************************************************)
(* C13: every mutation of a shared map of the stores (and of an entry's    *)
(* lastSeen) is made by a goroutine that holds the map's lock exclusively; *)
(* none is made under a shared (read) lock.                                *)
(***************************************************************************)
C13_WritesUnderExclusiveLock ==
    \A g \in Goroutines :
        (AtStep(g, "Write") \/ AtStep(g, "Delete"))
        => <<GuardOf(NextStep(g).obj), "exclusive">> \in HeldBy(g)

(***************************************************************************)
(* C14: no operation of the per-request path holds two of the program's    *)
(* locks at the same time.                                                 *)
(***************************************************************************)
C14_AtMostOneLockHeld ==
    \A g \in Goroutines :
        tasks[g].op \notin {"runExpiration", "relationRun"} => Cardinality(HeldBy(g)) <= 1

\* the expiration signals pending for a label tuple: relations blocked on the
\* send to expCh, and the signal runExpiration has received and not yet processed
PendingSignals(fam, labels) ==
    Cardinality({i \in DOMAIN rels :
                    rels[i].fam = fam /\ rels[i].labels = labels /\ rels[i].pc = "send"})
        + (IF expPc[fam] \in {"delete", "unrelate"} /\ expLabels[fam] = labels THEN 1 ELSE 0)

(***************************************************************************)
(* C15: for every label tuple of an expiring gauge at most one expiration  *)
(* signal is pending at any moment, under every interleaving of set/inc,   *)
(* timer firings and the expiration consumer.                              *)
(***************************************************************************)
C15_OneSignalPerTuple ==
    \A o \in Observations : PendingSignals(o.fam, o.labels) <= 1

\* a tuple whose first relation has expired and whose second relation, started
\* by a later set/inc, is blocked on its send
C15_SecondRelationSignals ==
    \E i, j \in DOMAIN rels :
        /\ i # j
        /\ rels[i].fam = rels[j].fam /\ rels[i].labels = rels[j].labels
        /\ rels[i].pc = "done" /\ rels[j].pc = "send"
        /\ PendingSignals(rels[j].fam, rels[j].labels) = 1

C17_UserGaugesExpire ==
    <>[](/\ DOMAIN ProducerUserTopicInfo \subseteq DOMAIN InitializeMetrics
         /\ DOMAIN ConsumerUserTopicInfo \subseteq DOMAIN InitializeMetrics
         /\ DOMAIN AuthUserActivity \subseteq DOMAIN InitializeMetrics)

\* the value of a series of a counter vector, 0 while the series does not exist
CounterValue(vec, labels) == IF labels \in DOMAIN vec THEN vec[labels] ELSE 0

(***************************************************************************)
(* C18: the loop iteration of run that processes a SaslAuthenticate        *)
(* request with a derived username u and mechanism m increases             *)
(* authentication_info{client_ip, m, u} by exactly 1.                      *)
(***************************************************************************)
C18_AuthenticationCountedOnce ==
    [][\A f \in Flows :
          (/\ Len(wire'[f]) < Len(wire[f])
           /\ lastIter'[f].type = "SaslAuthenticate"
           /\ lastIter'[f].outcome = "processed"
           /\ lastIter'[f].Username # EmptyStr)
          => LET labels == <<FlowSrc[f], streams'[f].currentMechanism, lastIter'[f].Username>>
             IN CounterValue(AuthenticationInfo', labels)
                    = CounterValue(AuthenticationInfo, labels) + 1]_vars

\* the token starts with 0x00 and a second 0x00 follows the username, with
\* password bytes behind it: approach 1 of tryDecodePlainAuth applies
IsPlainToken(token) == Len(token) >= 3 /\ TryPlain(token).found

\* the token up to and with its second 0x00
PlainPrefix(token) == Slice(token, 0, IndexOfAny(token, 1, {0}) + 1)

\* the body DecodeRequest makes of a SaslAuthenticate request carrying token
DecodedBody(token) == DecodeRequest(SaslFrame(token), FALSE, TRUE).body

\* C19: two PLAIN tokens that differ only in the bytes after the second 0x00
\* (the password) decode to equal SaslAuthenticate bodies, so that no field of
\* a decoded body holds the cleartext password.
C19_PasswordNotRetained ==
    (sasl.stage = "handled" /\ IsPlainToken(sasl.token)) =>
        \A other \in SaslTokens :
            (IsPlainToken(other) /\ PlainPrefix(other) = PlainPrefix(sasl.token))
            => DecodedBody(other) = sasl.body

\* the token starts with 0x00 and holds no other 0x00
NoSecondNul(token) ==
    Len(token) >= 1 /\ At(token, 0) = 0 /\ IndexOfAny(token, 1, {0}) < 0

\* C20: a SaslAuthenticate request whose token starts with 0x00 and holds no
\* second 0x00 decodes to a body with an empty username, and the iteration
\* that handles it leaves the correlator (authSessions, ipToUsername) and the
\* auth metrics (AuthenticationInfo, AuthUserActivity) as they were.
C20_NoSecondNulNoIdentity ==
    [][(sasl.stage = "offered" /\ sasl'.stage = "handled" /\ NoSecondNul(sasl.token))
       => /\ sasl'.body.Username = EmptyStr
          /\ authSessions' = authSessions
          /\ ipToUsername' = ipToUsername
          /\ AuthenticationInfo' = AuthenticationInfo
          /\ AuthUserActivity' = AuthUserActivity]_vars

\* every username the correlator, the streams and the metric labels hold
RecordedIdentities ==
    ({authSessions[a].Username : a \in DOMAIN authSessions}
        \cup {ipToUsername[b] : b \in DOMAIN ipToUsername}
        \cup {streams[f].currentUsername : f \in Flows}
        \cup {userClientMapping[c].username : c \in DOMAIN userClientMapping}
        \cup {l[3] : l \in DOMAIN AuthenticationInfo}
        \cup {l[2] : l \in DOMAIN AuthUserActivity}
        \cup {l[2] : l \in DOMAIN ProducerUserTopicInfo \cup DOMAIN ConsumerUserTopicInfo})
    \ {EmptyStr}

\* C21: every identity recorded in the correlator, in a stream's cached
\* identity or as the username label of a metric is 3 to 100 characters of
\* [A-Za-z0-9._@-]: the structured SaslAuthenticate path rejects every other
\* candidate, as isValidUsername does.
C21_RecordedIdentitiesValid == \A u \in RecordedIdentities : isValidUsername(u)

\* the bytes between the first and the second 0x00 of a PLAIN token
PlainUser(token) == Slice(token, 1, IndexOfAny(token, 1, {0}))

(***************************************************************************)
(* C22: when the mechanism a flow observed last is PLAIN and its reader    *)
(* holds a raw token (a 4-byte length below 1000, then 0x00), the          *)
(* iteration of run consumes exactly the length and the token, bypasses    *)
(* DecodeRequest, takes the bytes between the first and the second 0x00 as *)
(* the username and records it for the endpoint in the correlator.         *)
(***************************************************************************)
C22_RawTokenRecorded ==
    [][\A f \in Flows :
          (/\ sasl.stage = "offered"
           /\ wire[f] = RawFrame(sasl.token)
           /\ streams[f].lastSaslMechanism = MechanismPlain
           /\ Len(wire'[f]) < Len(wire[f]))
          => /\ wire'[f] = << >>
             /\ lastIter'[f].outcome = "rawToken"
             /\ streams'[f].currentUsername = PlainUser(sasl.token)
             /\ FlowSrc[f] \in DOMAIN authSessions'
             /\ authSessions'[FlowSrc[f]].Username = PlainUser(sasl.token)
             /\ extractBaseIP(FlowSrc[f]) \in DOMAIN ipToUsername'
             /\ ipToUsername'[extractBaseIP(FlowSrc[f])] = PlainUser(sasl.token)]_vars

(***************************************************************************)
(* C23: the loop iteration of run that processes a Fetch request adds 1 to *)
(* typed_requests_total{client, Fetch, version}, adds the number of       *)
(* partitions the request names, summed over its topics, to                *)
(* blocks_requested{client}, and sets the consumer relation gauge of every *)
(* topic of the request to 1.                                              *)
(***************************************************************************)
C23_FetchCounted ==
    [][\A f \in Flows :
          (/\ Len(wire'[f]) < Len(wire[f])
           /\ lastIter'[f].outcome = "processed"
           /\ lastIter'[f].type = "Fetch")
          => LET req == DecodeRequest(wire[f], closed[f], TRUE)
                 typed == <<FlowSrc[f], getApiName(req.key), req.version>>
             IN /\ CounterValue(RequestsCount', typed) = CounterValue(RequestsCount, typed) + 1
                /\ CounterValue(BlocksRequested', <<FlowSrc[f]>>)
                       = CounterValue(BlocksRequested, <<FlowSrc[f]>>) + req.body.blocks
                /\ \A t \in req.body.topics :
                       /\ <<FlowSrc[f], t>> \in DOMAIN gauge'["consumer"]
                       /\ gauge'["consumer"][<<FlowSrc[f], t>>] = 1]_vars

\* the reader of flow f holds the bytes b next, and the step takes bytes off it
Takes(f, b) ==
    /\ Len(wire[f]) >= Len(b)
    /\ SubSeq(wire[f], 1, Len(b)) = b
    /\ Len(wire'[f]) < Len(wire[f])

(***************************************************************************)
(* C24: the iteration of run that reads a Metadata request with an empty   *)
(* topic list processes it without a decode error, adds 1 to               *)
(* typed_requests_total{client, Metadata, version} and to no other series, *)
(* and creates no tuple in the producer or the consumer relation gauge.    *)
(***************************************************************************)
C24_EmptyMetadataCounted ==
    [][\A f \in Flows :
          Takes(f, FrameMetadataEmpty)
          => LET typed == <<FlowSrc[f], getApiName(3), 0>>
             IN /\ lastIter'[f].outcome = "processed"
                /\ lastIter'[f].type = "Metadata"
                /\ RequestsCount' = GaugeInc(RequestsCount, typed)
                /\ CounterValue(RequestsCount', typed) = CounterValue(RequestsCount, typed) + 1
                /\ gauge'["producer"] = gauge["producer"]
                /\ gauge'["consumer"] = gauge["consumer"]]_vars

\* a Metadata request with an empty topic list has been processed and counted
C24_EmptyMetadataProcessed ==
    \E f \in Flows :
        /\ lastIter[f].outcome = "processed"
        /\ lastIter[f].type = "Metadata"
        /\ lastIter[f].topics = {}
        /\ lastIter[f].size = 14
        /\ lastIter[f].used = Len(FrameMetadataEmpty)
        /\ CounterValue(RequestsCount, <<FlowSrc[f], getApiName(3), 0>>) >= 1

(***************************************************************************)
(* C25: when DecodeRequest has read a frame in full and the decoding of    *)
(* its body fails, the iteration of run still adds 1 to                    *)
(* typed_requests_total{client, name of the api key, version}.             *)
(***************************************************************************)
C25_DecodeErrorCounted ==
    [][\A f \in Flows :
          (/\ Len(wire'[f]) < Len(wire[f])
           /\ lastIter'[f].outcome = "decodeError"
           /\ lastIter'[f].complete)
          => LET typed == <<FlowSrc[f], getApiName(lastIter'[f].key),
                            SignedBigEndian(SubSeq(wire[f], 7, 8))>>
             IN CounterValue(RequestsCount', typed) = CounterValue(RequestsCount, typed) + 1]_vars

(***************************************************************************)
(* C26: once the stream of a flow has ended, run eventually returns,       *)
(* whether the end falls before a frame, inside the 8-byte prefix, inside  *)
(* a body or inside a raw token: no iteration repeats without taking bytes *)
(* off the reader.                                                         *)
(***************************************************************************)
C26_RunReturnsAfterEnd ==
    \A f \in Flows : closed[f] ~> (streams[f].pc = "returned")

\* a flow has ended inside a body: the wrapped read error left run in its loop
C26_EndedInsideBody ==
    \E f \in Flows :
        /\ closed[f]
        /\ streams[f].pc = "loop"
        /\ lastIter[f].outcome = "readError"
        /\ wire[f] = << >>

\* the reader of flow f holds the bytes b next, and the goroutine of f takes a step
Handles(f, b) ==
    /\ Len(wire[f]) >= Len(b)
    /\ SubSeq(wire[f], 1, Len(b)) = b
    /\ lastIter'[f] # lastIter[f]

(***************************************************************************)
(* C27: a request whose topic array declares more than 10000 entries is    *)
(* decoded to an empty body without a slice of the declared length being   *)
(* made (so the process cannot run out of memory over it), and the         *)
(* iteration counts it in typed_requests_total.                            *)
(***************************************************************************)
C27_OverCeilingEmptyBody ==
    [][\A f \in Flows :
          Handles(f, FrameDeleteTopics)
          => LET typed == <<FlowSrc[f], getApiName(19), 0>>
             IN /\ ~crashed'
                /\ lastIter'[f].outcome = "processed"
                /\ lastIter'[f].topics = {}
                /\ CounterValue(RequestsCount', typed) = CounterValue(RequestsCount, typed) + 1]_vars

(***************************************************************************)
(* C28: a read that fails inside a structured decoder, after the header,   *)
(* is turned into an empty body: Decode returns no error, so that the      *)
(* iteration processes the request, and the body's topic list is empty,    *)
(* never filled in part.                                                   *)
(***************************************************************************)
C28_FailedReadEmptyBody ==
    [][\A f \in Flows :
          Handles(f, FrameFetchShort)
          => /\ lastIter'[f].outcome = "processed"
             /\ lastIter'[f].topics = {}]_vars

\* C29: extractBaseIP returns the host of an IPv4 "ip:port", the host of a
\* "[addr]:port" without brackets and port, and the whole of a bare IPv6
\* address, IPv4-mapped forms written with dots included; and applying it to
\* its own result changes nothing.
C29_BaseIPOfEveryForm ==
    /\ probe.stage \in {"once", "twice"} => probe.once = probe.host
    /\ probe.stage = "twice" => probe.twice = probe.once

\* the cases of C29 one by one
C29_IPv4WithPort ==
    (probe.stage \in {"once", "twice"} /\ probe.host \in Hosts4) => probe.once = probe.host

C29_BracketedWithPort ==
    (probe.stage \in {"once", "twice"} /\ HasPrefixByte(probe.addr, LBracket)) => probe.once = probe.host

C29_BareIPv6Whole ==
    (probe.stage \in {"once", "twice"} /\ probe.addr \in Hosts6) => probe.once = probe.addr

C29_BareIPv6Undotted ==
    (probe.stage \in {"once", "twice"} /\ probe.addr \in Hosts6 /\ ~ContainsByte(probe.addr, Dot))
        => probe.once = probe.addr

C29_Idempotent ==
    probe.stage = "twice" => probe.twice = probe.once

\* a bare IPv4-mapped address written with dots went through extractBaseIP
C29_MappedDottedStripped ==
    probe.stage = "once" /\ probe.addr = Mapped6Dotted /\ probe.once = EmptyStr

\* C30: every api key has one name: for a key routed to a Generic body the
\* ApiName of the body is the name getApiName gives the key, and the key is
\* Unknown(<key>) for the one exactly when it is for the other.
C30_OneNamePerKey ==
    (probe.stage = "named" /\ probe.type = "Generic") =>
        /\ probe.ApiName = probe.label
        /\ (probe.ApiName = UnknownName(probe.key)) <=> (probe.label = UnknownName(probe.key))

\* the two halves of C30
C30_SameName ==
    (probe.stage = "named" /\ probe.type = "Generic") => probe.ApiName = probe.label

C30_UnknownTogether ==
    (probe.stage = "named" /\ probe.type = "Generic") =>
        ((probe.ApiName = UnknownName(probe.key)) <=> (probe.label = UnknownName(probe.key)))

\* the keys of C30 that carry one name
C30_AgreeingKeys ==
    (probe.stage = "named" /\ probe.type = "Generic"
        /\ probe.key \in ((4..16) \cup (33..51) \cup {53, 54, 55} \cup (57..67) \cup {70, 73} \cup (76..79) \cup (82..MaxKey)))
        => probe.ApiName = probe.label

\* C31: a structured decoder that is handed a well-formed body decodes it
\* without error and leaves no byte of it unread, for every version and also
\* when the topic array has length 0.
C31_WholeBodyConsumed ==
    probe.stage = "decoded" => ~probe.failed /\ probe.left = 0

\* the cases of C31 one by one
C31_DecodesWithoutError ==
    probe.stage = "decoded" => ~probe.failed

C31_FetchEmptyTopics ==
    (probe.stage = "decoded" /\ probe.type = "Fetch" /\ probe.names = << >>) => probe.left = 0

C31_FetchWithTopics ==
    (probe.stage = "decoded" /\ probe.type = "Fetch" /\ probe.names # << >>) => probe.left = 0

C31_FetchEmptyTopicsOld ==
    (probe.stage = "decoded" /\ probe.type = "Fetch" /\ probe.names = << >> /\ probe.version < 7)
        => probe.left = 0

C31_DeleteTopicsEmpty ==
    (probe.stage = "decoded" /\ probe.type = "DeleteTopics" /\ probe.names = << >>) => probe.left = 0

C31_DeleteTopicsWithTopics ==
    (probe.stage = "decoded" /\ probe.type = "DeleteTopics" /\ probe.names # << >>) => probe.left = 0

C31_MetadataOld ==
    (probe.stage = "decoded" /\ probe.type = "Metadata" /\ probe.version < 4) => probe.left = 0

C31_MetadataNew ==
    (probe.stage = "decoded" /\ probe.type = "Metadata" /\ probe.version >= 4) => probe.left = 0

C31_TopicsDecoded ==
    probe.stage = "decoded" => probe.topics = Range(probe.names)

\* the identity the correlator's lookup gives for the source of flow f: the
\* base-ip index first, the session of the source host after it
CorrelatorIdentity(f) ==
    ResolveUsername([streams[f] EXCEPT !.currentUsername = EmptyStr], World, FlowSrc[f]).currentUsername

\* flow f handles a Produce, Fetch or ListOffsets request and labels its
\* topics with an identity
LabelsTopics(f) ==
    /\ Len(wire'[f]) < Len(wire[f])
    /\ lastIter'[f].outcome = "processed"
    /\ lastIter'[f].type \in {"Produce", "Fetch", "ListOffsets"}
    /\ lastIter'[f].topics # {}
    /\ streams'[f].currentUsername # EmptyStr

\* C32: the identity a Produce, Fetch or ListOffsets request's topics are
\* labelled with is the one the correlator's lookup returns for the flow's
\* source at that moment, also after a different user has authenticated from
\* the host the flow borrowed its identity from.
C32_LabelIsCurrentLookup ==
    [][\A f \in Flows : LabelsTopics(f) =>
          /\ streams'[f].currentUsername = CorrelatorIdentity(f)
          /\ \A t \in lastIter'[f].topics :
                <<streams[f].clientAddress, CorrelatorIdentity(f), t>>
                    \in DOMAIN (IF lastIter'[f].type = "Produce" THEN ProducerUserTopicInfo'
                                ELSE ConsumerUserTopicInfo')]_vars

\* the first labelling of a flow does use the lookup
C32_FirstLabelIsLookup ==
    [][\A f \in Flows : (LabelsTopics(f) /\ streams[f].currentUsername = EmptyStr) =>
          streams'[f].currentUsername = CorrelatorIdentity(f)]_vars

\* C33: a username returned by an extraction routine is a contiguous run of
\* the token's bytes, or of the decoded JWT payload; no routine returns a
\* literal that does not occur in its input.
C33_UsernameOccursInToken ==
    (probe.stage = "extracted" /\ probe.username # EmptyStr) =>
        \/ Contains(probe.raw, probe.username)
        \/ Contains(JwtPayload(probe.raw), probe.username)

\* the routines of C33 other than extractSaslPlainUsername
C33_OtherRoutines ==
    (probe.stage = "extracted" /\ probe.username # EmptyStr
        /\ probe.routine # "extractSaslPlainUsername") =>
        \/ Contains(probe.raw, probe.username)
        \/ Contains(JwtPayload(probe.raw), probe.username)

\* extractSaslPlainUsername on tokens without "console-producer"
C33_SaslPlainWithoutConsole ==
    (probe.stage = "extracted" /\ probe.username # EmptyStr
        /\ probe.routine = "extractSaslPlainUsername" /\ ~Contains(probe.raw, ConsoleProducer)) =>
        Contains(probe.raw, probe.username)

\* the frames of the library that are complete, well-formed requests
WellFormedFrames ==
    {FrameProduce, FrameFetch, FrameListOffsets, FrameSaslAuthenticate, FrameSaslHandshake,
     FrameMetadata, FrameDescribeConfigs}

\* C34: after a SaslHandshake with mechanism PLAIN, a following well-formed
\* framed request (size below 1000, api key below 256) is read by
\* DecodeRequest and dispatched on its body; it is never consumed as a raw
\* SASL token.
C34_FramedRequestNotRawToken ==
    [][\A f \in Flows, b \in WellFormedFrames :
          (streams[f].lastSaslMechanism = MechanismPlain /\ Takes(f, b)) =>
              /\ lastIter'[f].outcome # "rawToken"
              /\ lastIter'[f].complete
              /\ lastIter'[f].key = SignedBigEndian(SubSeq(b, 5, 6))]_vars

\* without a PLAIN handshake before it the request is read by DecodeRequest
C34_FramedRequestWithoutHandshake ==
    [][\A f \in Flows, b \in WellFormedFrames :
          (streams[f].lastSaslMechanism # MechanismPlain /\ Takes(f, b)) =>
              /\ lastIter'[f].outcome # "rawToken"
              /\ lastIter'[f].complete
              /\ lastIter'[f].key = SignedBigEndian(SubSeq(b, 5, 6))]_vars

\* no set or inc is between its two steps, no runExpiration is between its
\* receive and its delete, and no relation goroutine is before its first
\* refresh or holds labels it has still to send
MetricQuiescent ==
    /\ \A c \in Callers : callers[c].pc = "idle"
    /\ \A fam \in Families : expPc[fam] = "recv"
    /\ \A i \in DOMAIN rels : rels[i].pc \notin {"start", "send"}

\* the tuples of a family that have an entry in the relations map whose
\* timer is created and whose goroutine still waits for it
LiveRelationTuples(fam) ==
    {rels[relations[fam][k]].labels :
        k \in {x \in DOMAIN relations[fam] :
                  rels[relations[fam][x]].timer.set /\ rels[relations[fam][x]].pc = "wait"}}

\* C35: whenever no set, inc or expiration step is in progress, the tuples of
\* the exposed gauge are exactly the tuples with a relation whose timer is
\* live; no tuple stays exposed without a relation that will expire it.
C35_GaugeMatchesRelations ==
    MetricQuiescent => \A fam \in Families : DOMAIN gauge[fam] = LiveRelationTuples(fam)

\* one direction of C35 alone: the tuple of a live relation is exposed
C35_RelationsAreExposed ==
    MetricQuiescent => \A fam \in Families : LiveRelationTuples(fam) \subseteq DOMAIN gauge[fam]

\* the relations a behaviour can create: one per call at most
RelationIds == 1..MaxCalls

\* C36: the expiring-gauge store cannot deadlock.  Under fair scheduling
\* every set/inc call returns, and every relation whose timer has fired
\* completes its send on expCh and has its tuple deleted by runExpiration,
\* however many relations of one family expire at once and however set/inc
\* calls interleave with the expiration consumer.
C36_NoDeadlock ==
    /\ \A c \in Callers : (callers[c].pc = "update") ~> (callers[c].pc = "idle")
    /\ \A i \in RelationIds :
          (i \in DOMAIN rels /\ rels[i].pc = "wait" /\ rels[i].timer.c)
              ~> (i \in DOMAIN rels /\ rels[i].pc \in {"send", "done"})
    /\ \A i \in RelationIds :
          (i \in DOMAIN rels /\ rels[i].pc = "send")
              ~> (i \in DOMAIN rels /\ rels[i].pc = "done" /\ expPc[rels[i].fam] = "recv")

\* two relations of one family are blocked on their send at once while a
\* set of the family is between its two steps
C36_ExpireAtOnce ==
    \E i, j \in DOMAIN rels :
        /\ i # j
        /\ rels[i].fam = rels[j].fam
        /\ rels[i].pc = "send"
        /\ rels[j].pc = "send"
        /\ \E c \in Callers : callers[c].pc = "update" /\ callers[c].fam = rels[i].fam

\* the (client, topic) relation is in neither the exposed relation gauge nor
\* the relations map of the family
RelationAbsent(g, r, fam, client, topic) ==
    /\ <<client, topic>> \notin DOMAIN g[fam]
    /\ genLabelKey(<<client, topic>>) \notin DOMAIN r[fam]

\* the step adds a series of this client and topic to the user-topic vector
SeriesCreated(before, after, client, topic) ==
    \E l \in DOMAIN after : l \notin DOMAIN before /\ l[1] = client /\ l[3] = topic

\* C37: once a (client, topic) relation has expired from the producer or
\* consumer relation gauge, a later authentication of the client creates no
\* producer_user_topic_info or consumer_user_topic_info series for that
\* topic: back-fill covers only topics whose relation is still present.
C37_NoBackFillOfExpired ==
    [][\A topic \in {TopicOrders, TopicLogs} :
          /\ (RelationAbsent(gauge, relations, "producer", IP1, topic)
                 /\ RelationAbsent(gauge', relations', "producer", IP1, topic))
                => ~SeriesCreated(ProducerUserTopicInfo, ProducerUserTopicInfo', IP1, topic)
          /\ (RelationAbsent(gauge, relations, "consumer", IP1, topic)
                 /\ RelationAbsent(gauge', relations', "consumer", IP1, topic))
                => ~SeriesCreated(ConsumerUserTopicInfo, ConsumerUserTopicInfo', IP1, topic)]_vars

\* back-fill of a topic that the client never touched does not happen
C37_NoBackFillOfUnseen ==
    [][\A topic \in {TopicOrders, TopicLogs} :
          /\ topic \notin TopicsOf(clientProducerTopics', IP1)
                => ~SeriesCreated(ProducerUserTopicInfo, ProducerUserTopicInfo', IP1, topic)
          /\ topic \notin TopicsOf(clientConsumerTopics', IP1)
                => ~SeriesCreated(ConsumerUserTopicInfo, ConsumerUserTopicInfo', IP1, topic)]_vars

\* goroutine g is about to read or write the fields of a stored AuthSession
AccessesSession(g, kind) == AtStep(g, kind) /\ NextStep(g).obj = SessionFields

\* C38: the fields of an AuthSession stored in the correlator are read and
\* written only while authSessionsLock is held; no flow reads Username or
\* Mechanism of a session GetAuthSession returned while another flow's
\* UpdateAuthSession writes the same session.
C38_SessionFieldsUnderLock ==
    /\ \A g \in Goroutines :
          /\ AccessesSession(g, "Write") => <<authSessionsLock, "exclusive">> \in HeldBy(g)
          /\ AccessesSession(g, "Read") =>
                \E mode \in {"shared", "exclusive"} : <<authSessionsLock, mode>> \in HeldBy(g)
    /\ \A g1, g2 \in Goroutines :
          ~(g1 # g2 /\ AccessesSession(g1, "Read") /\ AccessesSession(g2, "Write"))

\* the writes of the session fields are made under the exclusive lock
C38_SessionWritesUnderLock ==
    \A g \in Goroutines :
        AccessesSession(g, "Write") => <<authSessionsLock, "exclusive">> \in HeldBy(g)

\* no read of the session fields meets a write of them
C38_NoReadDuringWrite ==
    \A g1, g2 \in Goroutines :
        ~(g1 # g2 /\ AccessesSession(g1, "Read") /\ AccessesSession(g2, "Write"))

\* C39: for every api key k the body allocateBody(k, v) returns reports
\* key() = k, so a key with a structured decoder is decoded by the decoder of
\* that key: 19 by CreateTopics and 20 by DeleteTopics.
C39_BodyReportsItsKey ==
    probe.stage = "named" =>
        /\ probe.bodyKey = probe.key
        /\ probe.key = 19 => probe.type = "CreateTopics"
        /\ probe.key = 20 => probe.type = "DeleteTopics"

\* the first half alone: the allocated body reports the key of the request
C39_KeyReported == probe.stage = "named" => probe.bodyKey = probe.key

\* every request type that has a decoder is the one allocated for its key
C39_EveryDecoderAllocated ==
    probe.stage = "named" /\ probe.key \in {RequestKey[t] : t \in DOMAIN RequestKey}
        => probe.type \in DOMAIN RequestKey /\ RequestKey[probe.type] = probe.key

\* away from the keys 19 and 20 the allocated body reports the request's key
C39_OtherKeysReported ==
    probe.stage = "named" /\ probe.key \notin {19, 20} => probe.bodyKey = probe.key

\* key 19 is decoded by the DeleteTopics decoder, which reports key 20
C39_DeleteTopicsForKey19 ==
    ~(probe.stage = "named" /\ probe.key = 19 /\ probe.type = "DeleteTopics" /\ probe.bodyKey = 20)

=============================================================================
